---- MODULE Spec2Model ----
(***************************************************************************)
(* GS1 Parser PWA (src/app.js): the GS1 field extractor, the raw-to-       *)
(* bracketed decoder, the date normalizer, the master index builder and    *)
(* the tiered product matcher.                                             *)
(*                                                                         *)
(* A JavaScript string is a sequence of one-character strings; the empty   *)
(* string is << >>.  The group separator U+001D is the token "GS".  Names  *)
(* of catalog products, match types, statuses and error messages are       *)
(* atomic strings.  Positions are 0-based as in the source.                *)
(***************************************************************************)
EXTENDS Integers, Sequences, FiniteSets, TLC

VARIABLES
  raw,          \* argument of the running processScan(raw)
  parsed,       \* const parsed = parseGs1(raw)
  match,        \* const match = matchProduct(parsed, AppState.masterIndex)
  entry,        \* the history entry processScan builds
  masterData,   \* AppState.masterData
  masterIndex,  \* AppState.masterIndex
  today,        \* the local calendar day new Date() falls on
  tzWest,       \* TRUE when local time is behind UTC
  lenientDate,  \* TRUE when the engine's Date parser rolls an overflowing day over
  historyRows,  \* AppState.historyRows
  historyStore, \* the rows of the IndexedDB object store 'history'
  pc,           \* where processScan is: "idle", "saving" (awaiting saveHistory),
                \* "done", or "failed" (saveHistory rejected)
  historyTx,    \* the transactions open on the 'history' store, oldest first
  restoreTask,  \* the restoreJSON call awaiting the 'history' store, if any
  masterCount,  \* AppState.masterCount
  pendingMasterData, \* AppState.pendingMasterData
  masterStore,  \* the rows of the IndexedDB object store 'master'
  masterTx,     \* the transactions open on the 'master' store, oldest first
  lastCatalog,  \* the last list of rows AppState.masterData has held
  scanning,     \* AppState.scanning
  cameraStream, \* AppState.cameraStream: a stream number, or 0 for null
  streams,      \* the camera streams whose tracks are live
  acquired,     \* how many camera streams getUserMedia has handed out
  starts,       \* the startScanning calls in flight, by the await they are at
  loops,        \* the detection loops that have a detectFrame call to come
  currentTab,   \* AppState.currentTab
  loop          \* the call being stepped through, with the locals of its loop

catalogVars == <<masterCount, pendingMasterData, masterStore, masterTx, lastCatalog>>

cameraVars == <<scanning, cameraStream, streams, acquired, starts, loops, currentTab>>

vars == <<raw, parsed, match, entry, masterData, masterIndex, today, tzWest,
          lenientDate, historyRows, historyStore, pc, historyTx, restoreTask,
          catalogVars, cameraVars, loop>>

----------------------------------------------------------------------------
(* Strings *)

Digits == {"0", "1", "2", "3", "4", "5", "6", "7", "8", "9"}

Letters ==
  {"A", "B", "C", "D", "E", "F", "G", "H", "I", "J", "K", "L", "M",
   "N", "O", "P", "Q", "R", "S", "T", "U", "V", "W", "X", "Y", "Z",
   "a", "b", "c", "d", "e", "f", "g", "h", "i", "j", "k", "l", "m",
   "n", "o", "p", "q", "r", "s", "t", "u", "v", "w", "x", "y", "z"}

Whitespace == {" ", "\t"}

IsDigit(c) == c \in Digits

\* [A-Za-z0-9\-\/\.\s]
BatchChars == Letters \cup Digits \cup {"-", "/", "."} \cup Whitespace

\* the element of a one-element set.  A constant of the source, const x = e, is
\* written TheOne({body : x \in {e}}): e is evaluated once and x names its value.
TheOne(S) == CHOOSE x \in S : TRUE

MinOf(S) == CHOOSE x \in S : \A y \in S : x <= y

MaxOf(S) == CHOOSE x \in S : \A y \in S : x >= y

\* String.prototype.substring(a, b) for 0 <= a; b is clamped to the length
Substring(s, a, b) ==
  LET e == IF b > Len(s) THEN Len(s) ELSE b
  IN  IF a >= e THEN << >> ELSE SubSeq(s, a + 1, e)

\* String.prototype.slice(-n)
SliceLast(s, n) == IF Len(s) <= n THEN s ELSE SubSeq(s, Len(s) - n + 1, Len(s))

Repeat(c, n) == [i \in 1..n |-> c]

\* String.prototype.padStart(n, '0')
PadStart(s, n) == IF Len(s) >= n THEN s ELSE Repeat("0", n - Len(s)) \o s

\* String.prototype.startsWith(p, i)
StartsWithAt(s, i, p) ==
  /\ i + Len(p) <= Len(s)
  /\ \A k \in 1..Len(p) : s[i + k] = p[k]

\* String.prototype.includes(sub)
Includes(s, sub) == \E i \in 0..(Len(s) - Len(sub)) : StartsWithAt(s, i, sub)

\* String.prototype.trim()
Trim(s) ==
  LET keep == {i \in 1..Len(s) : s[i] \notin Whitespace}
  IN  IF keep = {} THEN << >> ELSE SubSeq(s, MinOf(keep), MaxOf(keep))

\* replace(/\D/g, '')
StripNonDigits(s) == SelectSeq(s, IsDigit)

\* the length of the run of characters of the class cls that starts at 0-based i
RunLen(s, i, cls) ==
  LET stops == {k \in i..(Len(s) - 1) : s[k + 1] \notin cls}
  IN  IF stops = {} THEN (IF i > Len(s) THEN 0 ELSE Len(s) - i) ELSE MinOf(stops) - i

----------------------------------------------------------------------------
(* Map: insertion-ordered entries, one per key *)

EmptyMap == << >>

MapHas(m, k) == \E i \in 1..Len(m) : m[i].key = k

MapGet(m, k) == m[CHOOSE i \in 1..Len(m) : m[i].key = k].value

MapSet(m, k, v) ==
  IF MapHas(m, k)
  THEN [i \in 1..Len(m) |-> IF m[i].key = k THEN [key |-> k, value |-> v] ELSE m[i]]
  ELSE Append(m, [key |-> k, value |-> v])

MapSize(m) == Len(m)

----------------------------------------------------------------------------
(* MASTER DATA MATCHING *)

GtinLen == 14

Last8Len == 8

Last10Len == 10

Seq6Len == 6

\* const gtin = String(item.gtin).replace(/\D/g, '').padStart(14, '0')
CanonicalGtin(item) == PadStart(StripNonDigits(item.gtin), GtinLen)

\* IndexItem with the first name of a key kept in the exact map
IndexItem_FirstWins(index, item) ==
  LET gtin  == CanonicalGtin(item)
      name  == IF "name" \in DOMAIN item THEN item.name ELSE ""
      ex1   == IF MapHas(index.exact, gtin) THEN index.exact
               ELSE MapSet(index.exact, gtin, name)
      g13   == Substring(gtin, 1, Len(gtin))
      ex2   == IF StartsWithAt(gtin, 0, <<"0">>) /\ ~MapHas(ex1, g13)
               THEN MapSet(ex1, g13, name)
               ELSE ex1
      last8 == SliceLast(gtin, Last8Len)
      l1    == IF MapHas(index.last8, last8)
               THEN index.last8
               ELSE MapSet(index.last8, last8, << >>)
      l2    == MapSet(l1, last8, Append(MapGet(l1, last8), [gtin |-> gtin, name |-> name]))
  IN  [exact |-> ex2, last8 |-> l2]

\* IndexItem with a GTIN entered once in its last-8 bucket
IndexItem_DedupLast8(index, item) ==
  LET gtin  == CanonicalGtin(item)
      name  == IF "name" \in DOMAIN item THEN item.name ELSE ""
      ex1   == MapSet(index.exact, gtin, name)
      ex2   == IF StartsWithAt(gtin, 0, <<"0">>)
               THEN MapSet(ex1, Substring(gtin, 1, Len(gtin)), name)
               ELSE ex1
      last8 == SliceLast(gtin, Last8Len)
      l1    == IF MapHas(index.last8, last8)
               THEN index.last8
               ELSE MapSet(index.last8, last8, << >>)
      old   == MapGet(l1, last8)
      l2    == IF \E k \in 1..Len(old) : old[k].gtin = gtin
               THEN l1
               ELSE MapSet(l1, last8, Append(old, [gtin |-> gtin, name |-> name]))
  IN  [exact |-> ex2, last8 |-> l2]

\* the body of the for-of loop of buildMasterIndex, for one item
IndexItem(index, item) ==
  LET gtin  == CanonicalGtin(item)
      name  == IF "name" \in DOMAIN item THEN item.name ELSE ""
      ex1   == MapSet(index.exact, gtin, name)
      ex2   == IF StartsWithAt(gtin, 0, <<"0">>)
               THEN MapSet(ex1, Substring(gtin, 1, Len(gtin)), name)
               ELSE ex1
      last8 == SliceLast(gtin, Last8Len)
      l1    == IF MapHas(index.last8, last8)
               THEN index.last8
               ELSE MapSet(index.last8, last8, << >>)
      l2    == MapSet(l1, last8, Append(MapGet(l1, last8), [gtin |-> gtin, name |-> name]))
  IN  [exact |-> ex2, last8 |-> l2]

EmptyIndex == [exact |-> EmptyMap, last8 |-> EmptyMap]

RECURSIVE BuildFrom(_, _, _)
BuildFrom(data, i, index) ==
  IF i > Len(data) THEN index
  ELSE TheOne({BuildFrom(data, i + 1, next) : next \in {IndexItem(index, data[i])}})

buildMasterIndex(data) == BuildFrom(data, 1, EmptyIndex)

\* the inner for-of over index.exact for one window seq6 of matchProduct
RECURSIVE Seq6Scan(_, _, _, _)
Seq6Scan(exact, j, seq6, acc) ==
  IF j > Len(exact) THEN acc
  ELSE LET gtin == exact[j].key
           hit  == Includes(gtin, seq6)
           existing == \E m \in 1..Len(acc) : acc[m].gtin = gtin
           pushed == IF hit /\ ~existing
                     THEN Append(acc, [gtin |-> gtin, name |-> exact[j].value])
                     ELSE acc
       IN  TheOne({Seq6Scan(exact, j + 1, seq6, next) : next \in {pushed}})

\* the outer for (let i = 0; i <= last10.length - 6; i++)
RECURSIVE Seq6Windows(_, _, _, _)
Seq6Windows(exact, last10, i, acc) ==
  IF i > Len(last10) - Seq6Len THEN acc
  ELSE TheOne({Seq6Windows(exact, last10, i + 1, next) :
                 next \in {Seq6Scan(exact, 1, Substring(last10, i, i + Seq6Len), acc)}})

\* the last-8 tier with the ambiguous outcome carrying the first candidate's name
Last8Tier_NamedAmbiguity(gtin14, index) ==
  LET last8 == SliceLast(gtin14, Last8Len)
  IN  IF MapHas(index.last8, last8)
      THEN LET matches == MapGet(index.last8, last8)
           IN  IF Len(matches) = 1
               THEN [decided |-> TRUE, name |-> matches[1].name, matchType |-> "LAST8"]
               ELSE [decided |-> TRUE, name |-> matches[1].name,
                     matchType |-> "AMBIGUOUS-LAST8"]
      ELSE [decided |-> FALSE]

\* the last-8 tier; the result has decided = FALSE when the tier falls through
Last8Tier(gtin14, index) ==
  LET last8 == SliceLast(gtin14, Last8Len)
  IN  IF MapHas(index.last8, last8)
      THEN LET matches == MapGet(index.last8, last8)
           IN  IF Len(matches) = 1
               THEN [decided |-> TRUE, name |-> matches[1].name, matchType |-> "LAST8"]
               ELSE IF Len(matches) > 1
               THEN [decided |-> TRUE, name |-> "", matchType |-> "AMBIGUOUS-LAST8"]
               ELSE [decided |-> FALSE]
      ELSE [decided |-> FALSE]

\* the 6-digit-window tier
Seq6Tier(gtin14, index) ==
  LET last10 == SliceLast(gtin14, Last10Len)
  IN  TheOne({IF Len(seq6Matches) = 1
              THEN [name |-> seq6Matches[1].name, matchType |-> "SEQ6"]
              ELSE IF Len(seq6Matches) > 1
              THEN [name |-> "", matchType |-> "AMBIGUOUS-SEQ6"]
              ELSE [name |-> "", matchType |-> "NONE"] :
              seq6Matches \in {Seq6Windows(index.exact, last10, 0, << >>)}})

\* a missing index argument (null / undefined)
NoIndex == [missing |-> TRUE]

IndexMissing(index) == "exact" \notin DOMAIN index

\* the exact tier: index.exact.has(gtin14), then index.exact.has(gtin13)
ExactTier(gtin14, gtin13, index) ==
  IF MapHas(index.exact, gtin14)
  THEN [decided |-> TRUE, name |-> MapGet(index.exact, gtin14), matchType |-> "EXACT"]
  ELSE IF MapHas(index.exact, gtin13)
  THEN [decided |-> TRUE, name |-> MapGet(index.exact, gtin13), matchType |-> "EXACT"]
  ELSE [decided |-> FALSE]

\* matchProduct with the last-8 tier tried before the exact tier
matchProduct_Last8First(p, index) ==
  IF ~p.valid THEN [name |-> "", matchType |-> "INVALID"]
  ELSE IF IndexMissing(index) \/ MapSize(index.exact) = 0
  THEN [name |-> "", matchType |-> "NONE"]
  ELSE TheOne({IF l.decided THEN [name |-> l.name, matchType |-> l.matchType]
               ELSE IF e.decided THEN [name |-> e.name, matchType |-> e.matchType]
               ELSE Seq6Tier(p.gtin14, index) :
               e \in {ExactTier(p.gtin14, p.gtin13, index)},
               l \in {Last8Tier(p.gtin14, index)}})

\* matchProduct with the empty-index test made before the validity test
matchProduct_EmptyFirst(p, index) ==
  IF IndexMissing(index) \/ MapSize(index.exact) = 0
  THEN [name |-> "", matchType |-> "NONE"]
  ELSE IF ~p.valid THEN [name |-> "", matchType |-> "INVALID"]
  ELSE TheOne({IF e.decided THEN [name |-> e.name, matchType |-> e.matchType]
               ELSE IF l.decided THEN [name |-> l.name, matchType |-> l.matchType]
               ELSE Seq6Tier(p.gtin14, index) :
               e \in {ExactTier(p.gtin14, p.gtin13, index)},
               l \in {Last8Tier(p.gtin14, index)}})

matchProduct(p, index) ==
  IF ~p.valid THEN [name |-> "", matchType |-> "INVALID"]
  ELSE IF IndexMissing(index) \/ MapSize(index.exact) = 0
  THEN [name |-> "", matchType |-> "NONE"]
  ELSE TheOne({IF e.decided THEN [name |-> e.name, matchType |-> e.matchType]
               ELSE IF l.decided THEN [name |-> l.name, matchType |-> l.matchType]
               ELSE Seq6Tier(p.gtin14, index) :
               e \in {ExactTier(p.gtin14, p.gtin13, index)},
               l \in {Last8Tier(p.gtin14, index)}})

----------------------------------------------------------------------------
(* GS1 PARSING *)

\* aiLengths of convertRawToParenthesized; -1 stands for undefined
AiLength(code) ==
  CASE code = <<"0", "1">> -> 14
    [] code = <<"0", "2">> -> 14
    [] code = <<"1", "0">> -> 0
    [] code = <<"1", "1">> -> 6
    [] code = <<"1", "2">> -> 6
    [] code = <<"1", "3">> -> 6
    [] code = <<"1", "5">> -> 6
    [] code = <<"1", "6">> -> 6
    [] code = <<"1", "7">> -> 6
    [] code = <<"2", "0">> -> 2
    [] code = <<"2", "1">> -> 0
    [] code = <<"2", "2">> -> 0
    [] code = <<"3", "0">> -> 0
    [] code = <<"3", "7">> -> 0
    [] code = <<"2", "4", "0">> -> 0
    [] code = <<"2", "4", "1">> -> 0
    [] code = <<"2", "4", "2">> -> 0
    [] code = <<"2", "5", "0">> -> 0
    [] code = <<"2", "5", "1">> -> 0
    [] OTHER -> -1

\* raw.split('|')
RECURSIVE SplitFrom(_, _, _, _)
SplitFrom(s, i, cur, acc) ==
  IF i > Len(s) THEN Append(acc, cur)
  ELSE IF s[i] = "|" THEN SplitFrom(s, i + 1, << >>, Append(acc, cur))
  ELSE SplitFrom(s, i + 1, Append(cur, s[i]), acc)

Split(s) == SplitFrom(s, 1, << >>, << >>)

\* the AI code matched at position i of part: 3 characters first, then 2; << >> for none
AiAt(part, i) ==
  LET ai3 == Substring(part, i, i + 3)
      ai2 == Substring(part, i, i + 2)
  IN  IF i + 3 <= Len(part) /\ AiLength(ai3) # -1 THEN ai3
      ELSE IF i + 2 <= Len(part) /\ AiLength(ai2) # -1 THEN ai2
      ELSE << >>

\* ValueEnd with the fixed length counted from the AI code instead of the value
ValueEnd_FromCode(part, i, ai) ==
  LET aiLen == AiLength(ai)
  IN  IF aiLen > 0
      THEN (IF i + aiLen < Len(part) THEN i + aiLen ELSE Len(part))
      ELSE Len(part)

\* ValueEnd with every value running to the end of its part
ValueEnd_ToPartEnd(part, i, ai) == Len(part)

\* where the value of the AI matched at i ends
ValueEnd(part, i, ai) ==
  LET valueStart == i + Len(ai)
      aiLen      == AiLength(ai)
  IN  IF aiLen > 0
      THEN (IF valueStart + aiLen < Len(part) THEN valueStart + aiLen ELSE Len(part))
      ELSE Len(part)

\* the while (i < part.length) loop over one part
RECURSIVE DecodePart(_, _, _)
DecodePart(part, i, result) ==
  IF i >= Len(part) THEN result
  ELSE LET ai == AiAt(part, i)
       IN  IF ai # << >>
           THEN LET valueEnd == ValueEnd(part, i, ai)
                    value    == Substring(part, i + Len(ai), valueEnd)
                IN  TheOne({DecodePart(part, valueEnd, next) :
                            next \in {result \o <<"(">> \o ai \o <<")">> \o value}})
           ELSE DecodePart(part, i + 1, result)

RECURSIVE DecodeParts(_, _, _)
DecodeParts(parts, n, result) ==
  IF n > Len(parts) THEN result
  ELSE TheOne({DecodeParts(parts, n + 1, next) : next \in {DecodePart(parts[n], 0, result)}})

convertRawToParenthesized(s) ==
  TheOne({IF result # << >> THEN result ELSE s :
          result \in {TheOne({DecodeParts(parts, 1, << >>) : parts \in {Split(s)}})}})

----------------------------------------------------------------------------
(* Dates *)

DigitChars == <<"0", "1", "2", "3", "4", "5", "6", "7", "8", "9">>

DigitValue(c) == (CHOOSE i \in 1..10 : DigitChars[i] = c) - 1

\* parseInt(s, 10) of a run of digits
RECURSIVE ParseIntFrom(_, _, _)
ParseIntFrom(s, i, acc) ==
  IF i > Len(s) THEN acc ELSE ParseIntFrom(s, i + 1, acc * 10 + DigitValue(s[i]))

ParseInt(s) == ParseIntFrom(s, 1, 0)

\* String(n) for n >= 0
RECURSIVE ToStr(_)
ToStr(n) == IF n < 10 THEN <<DigitChars[n + 1]>> ELSE ToStr(n \div 10) \o <<DigitChars[(n % 10) + 1]>>

IsLeap(y) == (y % 4 = 0 /\ y % 100 # 0) \/ y % 400 = 0

DaysInMonth(y, m) ==
  IF m = 2 THEN (IF IsLeap(y) THEN 29 ELSE 28)
  ELSE IF m \in {4, 6, 9, 11} THEN 30 ELSE 31

\* the length of the month after month mm, as if mm were a 0-based month index
ZerothDayOfNext_FollowingMonth(year, mm) ==
  DaysInMonth(year + (mm \div 12), (mm % 12) + 1)

\* new Date(year, mm, 0).getDate(): the day before the first of month index mm,
\* with the month index carried into the year
ZerothDayOfNext(year, mm) ==
  IF mm = 0 THEN DaysInMonth(year - 1, 12)
  ELSE DaysInMonth(year + ((mm - 1) \div 12), ((mm - 1) % 12) + 1)

BaseYear == 2000

LeapsThrough(y) == (y \div 4) - (y \div 100) + (y \div 400)

RECURSIVE DaysBeforeMonth(_, _)
DaysBeforeMonth(y, m) == IF m <= 1 THEN 0 ELSE DaysBeforeMonth(y, m - 1) + DaysInMonth(y, m - 1)

\* days from 2000-01-01 to y-m-d; a day past the month's end rolls over
DayNumber(y, m, d) ==
  (y - BaseYear) * 365 + (LeapsThrough(y - 1) - LeapsThrough(BaseYear - 1))
    + DaysBeforeMonth(y, m) + (d - 1)

NoDate == [iso |-> << >>, formatted |-> << >>]

\* parseGS1Date without the test of the month
parseGS1Date_DayOnly(dateStr) ==
  IF dateStr = << >> \/ Len(dateStr) # 6 THEN NoDate
  ELSE LET yy   == ParseInt(Substring(dateStr, 0, 2))
           mm   == ParseInt(Substring(dateStr, 2, 4))
           dd0  == ParseInt(Substring(dateStr, 4, 6))
           year == BaseYear + yy
           dd   == IF dd0 = 0 THEN ZerothDayOfNext(year, mm) ELSE dd0
       IN  IF dd < 1 \/ dd > 31 THEN NoDate
           ELSE [iso |-> ToStr(year) \o <<"-">> \o PadStart(ToStr(mm), 2)
                           \o <<"-">> \o PadStart(ToStr(dd), 2),
                 formatted |-> PadStart(ToStr(dd), 2) \o <<"/">> \o PadStart(ToStr(mm), 2)
                           \o <<"/">> \o ToStr(year)]

parseGS1Date(dateStr) ==
  IF dateStr = << >> \/ Len(dateStr) # 6 THEN NoDate
  ELSE LET yy   == ParseInt(Substring(dateStr, 0, 2))
           mm   == ParseInt(Substring(dateStr, 2, 4))
           dd0  == ParseInt(Substring(dateStr, 4, 6))
           year == BaseYear + yy
           dd   == IF dd0 = 0 THEN ZerothDayOfNext(year, mm) ELSE dd0
       IN  IF mm < 1 \/ mm > 12 \/ dd < 1 \/ dd > 31 THEN NoDate
           ELSE [iso |-> ToStr(year) \o <<"-">> \o PadStart(ToStr(mm), 2)
                           \o <<"-">> \o PadStart(ToStr(dd), 2),
                 formatted |-> PadStart(ToStr(dd), 2) \o <<"/">> \o PadStart(ToStr(mm), 2)
                           \o <<"/">> \o ToStr(year)]

\* new Date(isoDate) followed by setHours(0, 0, 0, 0), as a local day number.
\* A date-only ISO string is UTC midnight, which is the previous local day when
\* local time is behind UTC.  A day past the end of its month is either rolled
\* over or Invalid Date, depending on the engine; nan = TRUE is Invalid Date.
ExpiryLocalDay(isoDate, west, lenient) ==
  LET y == ParseInt(Substring(isoDate, 0, 4))
      m == ParseInt(Substring(isoDate, 5, 7))
      d == ParseInt(Substring(isoDate, 8, 10))
  IN  IF d > DaysInMonth(y, m) /\ ~lenient
      THEN [nan |-> TRUE, day |-> 0]
      ELSE [nan |-> FALSE, day |-> DayNumber(y, m, d) - (IF west THEN 1 ELSE 0)]

SoonDays == 30

getExpiryStatus(isoDate, now, west, lenient) ==
  IF isoDate = << >> THEN "missing"
  ELSE LET expiry == ExpiryLocalDay(isoDate, west, lenient)
           diffDays == expiry.day - now
       IN  IF expiry.nan THEN "ok"
           ELSE IF diffDays < 0 THEN "expired"
           ELSE IF diffDays <= SoonDays THEN "soon"
           ELSE "ok"

----------------------------------------------------------------------------
(* Field extractor *)

AI01 == <<"(", "0", "1", ")">>

AI17 == <<"(", "1", "7", ")">>

AI10 == <<"(", "1", "0", ")">>

AI21 == <<"(", "2", "1", ")">>

AI30 == <<"(", "3", "0", ")">>

NoCapture == [found |-> FALSE, cap |-> << >>]

\* /<ai>(\d{lo,hi})/ : leftmost position where the AI is followed by at least lo
\* digits; the capture is greedy up to hi digits
MatchDigits(s, ai, lo, hi) ==
  LET at == {i \in 0..(Len(s) - 1) :
               StartsWithAt(s, i, ai) /\ RunLen(s, i + Len(ai), Digits) >= lo}
  IN  IF at = {} THEN NoCapture
      ELSE LET i == MinOf(at)
               n == RunLen(s, i + Len(ai), Digits)
           IN  [found |-> TRUE,
                cap |-> Substring(s, i + Len(ai), i + Len(ai) + (IF n > hi THEN hi ELSE n))]

\* (?=\([0-9]{2}\)|$) at position p
AiLookahead(s, p) ==
  \/ p = Len(s)
  \/ /\ p + 4 <= Len(s)
     /\ s[p + 1] = "("
     /\ IsDigit(s[p + 2])
     /\ IsDigit(s[p + 3])
     /\ s[p + 4] = ")"

\* the capture lengths k >= 1 at which /<ai>([A-Za-z0-9\-\/\.\s]+?)(?=...)/ succeeds at i
LazyLengths(s, i, ai) ==
  {k \in 1..RunLen(s, i + Len(ai), BatchChars) : AiLookahead(s, i + Len(ai) + k)}

\* /<ai>([A-Za-z0-9\-\/\.\s]+?)(?=\([0-9]{2}\)|$)/ : leftmost position, shortest capture
MatchVariable(s, ai) ==
  LET at == {i \in 0..(Len(s) - 1) : StartsWithAt(s, i, ai) /\ LazyLengths(s, i, ai) # {}}
  IN  IF at = {} THEN NoCapture
      ELSE LET i == MinOf(at)
               k == MinOf(LazyLengths(s, i, ai))
           IN  [found |-> TRUE, cap |-> Substring(s, i + Len(ai), i + Len(ai) + k)]

\* an upper limit for \d+ ; no digit run of a string is longer than the string
Unbounded(s) == Len(s)

\* cleanedRaw of parseGs1: trim, U+001D to '|', decode when there is no '('
ReplaceGs(t) == [i \in 1..Len(t) |-> IF t[i] = "GS" THEN "|" ELSE t[i]]

\* CleanedRaw with the decoder applied to bracketed input too
CleanedRaw_AlwaysDecode(s) ==
  TheOne({convertRawToParenthesized(r) : r \in {ReplaceGs(Trim(s))}})

CleanedRaw(s) ==
  TheOne({IF \E i \in 1..Len(r) : r[i] = "(" THEN r ELSE convertRawToParenthesized(r) :
          r \in {ReplaceGs(Trim(s))}})

\* ExtractGtin with the first digit of a 14-digit GTIN always dropped for gtin13
ExtractGtin_AlwaysStrip(cleanedRaw) ==
  TheOne({IF gtinMatch.found
          THEN [gtin14 |-> gtinMatch.cap,
                gtin13 |-> Substring(gtinMatch.cap, 1, Len(gtinMatch.cap))]
          ELSE IF shortGtinMatch.found
          THEN LET g13 == PadStart(shortGtinMatch.cap, 13)
               IN  [gtin14 |-> PadStart(g13, GtinLen), gtin13 |-> g13]
          ELSE [gtin14 |-> << >>, gtin13 |-> << >>] :
          gtinMatch \in {MatchDigits(cleanedRaw, AI01, GtinLen, GtinLen)},
          shortGtinMatch \in {MatchDigits(cleanedRaw, AI01, 12, 13)}})

\* ExtractGtin with the short form's gtin13 left unpadded
ExtractGtin_ShortUnpadded(cleanedRaw) ==
  TheOne({IF gtinMatch.found
          THEN [gtin14 |-> gtinMatch.cap,
                gtin13 |-> IF StartsWithAt(gtinMatch.cap, 0, <<"0">>)
                           THEN Substring(gtinMatch.cap, 1, Len(gtinMatch.cap))
                           ELSE gtinMatch.cap]
          ELSE IF shortGtinMatch.found
          THEN [gtin14 |-> PadStart(shortGtinMatch.cap, GtinLen),
                gtin13 |-> shortGtinMatch.cap]
          ELSE [gtin14 |-> << >>, gtin13 |-> << >>] :
          gtinMatch \in {MatchDigits(cleanedRaw, AI01, GtinLen, GtinLen)},
          shortGtinMatch \in {MatchDigits(cleanedRaw, AI01, 12, 13)}})

\* result.gtin14 / result.gtin13
ExtractGtin(cleanedRaw) ==
  TheOne({IF gtinMatch.found
          THEN [gtin14 |-> gtinMatch.cap,
                gtin13 |-> IF StartsWithAt(gtinMatch.cap, 0, <<"0">>)
                           THEN Substring(gtinMatch.cap, 1, Len(gtinMatch.cap))
                           ELSE gtinMatch.cap]
          ELSE IF shortGtinMatch.found
          THEN LET g13 == PadStart(shortGtinMatch.cap, 13)
               IN  [gtin14 |-> PadStart(g13, GtinLen), gtin13 |-> g13]
          ELSE [gtin14 |-> << >>, gtin13 |-> << >>] :
          gtinMatch \in {MatchDigits(cleanedRaw, AI01, GtinLen, GtinLen)},
          shortGtinMatch \in {MatchDigits(cleanedRaw, AI01, 12, 13)}})

\* ExtractVariable without the trim() of the captured value
ExtractVariable_NoTrim(cleanedRaw, ai) ==
  LET m == MatchVariable(cleanedRaw, ai)
  IN  IF m.found THEN m.cap ELSE << >>

\* result.batch / result.serial
ExtractVariable(cleanedRaw, ai) ==
  LET m == MatchVariable(cleanedRaw, ai)
  IN  IF m.found THEN Trim(m.cap) ELSE << >>

\* result.qty
ExtractQty(cleanedRaw) ==
  LET qtyMatch == MatchDigits(cleanedRaw, AI30, 1, Unbounded(cleanedRaw))
  IN  IF qtyMatch.found THEN qtyMatch.cap ELSE <<"1">>

\* a scan input: a string, or a value that is not a string
Str(s) == [type |-> "string", s |-> s]

NonStrings == {[type |-> "null"], [type |-> "undefined"], [type |-> "number"]}

\* !raw || typeof raw !== 'string'
EmptyOrNotString(r) == r.type # "string" \/ r.s = << >>

\* the result object of parseGs1 once the fields are extracted
ParsedResult(r, g, date, status, batch, serial, qty) ==
  LET result == [valid |-> TRUE,
                 raw |-> r,
                 gtin14 |-> g.gtin14,
                 gtin13 |-> g.gtin13,
                 expiry |-> date.iso,
                 expiryFormatted |-> date.formatted,
                 expiryStatus |-> status,
                 batch |-> batch,
                 serial |-> serial,
                 qty |-> qty,
                 productName |-> "",
                 matchType |-> "NONE"]
  IN  IF g.gtin14 = << >> /\ g.gtin13 = << >>
      THEN [result EXCEPT !.valid = FALSE, !.matchType = "INVALID"]
             @@ [error |-> "No valid GTIN found"]
      ELSE result

\* parsed.iso, parsed.formatted and the status of the expiry match
ExtractExpiry(cleanedRaw, now, west, lenient) ==
  TheOne({IF expiryMatch.found
          THEN TheOne({[date |-> d, status |-> getExpiryStatus(d.iso, now, west, lenient)] :
                       d \in {parseGS1Date(expiryMatch.cap)}})
          ELSE [date |-> NoDate, status |-> "missing"] :
          expiryMatch \in {MatchDigits(cleanedRaw, AI17, 6, 6)}})

parseGs1(r, now, west, lenient) ==
  IF EmptyOrNotString(r)
  THEN [valid |-> FALSE, error |-> "Empty or invalid input"]
  ELSE TheOne({TheOne({ParsedResult(r, g, e.date, e.status, batch, serial, qty) :
                       g \in {ExtractGtin(cleanedRaw)},
                       e \in {ExtractExpiry(cleanedRaw, now, west, lenient)},
                       batch \in {ExtractVariable(cleanedRaw, AI10)},
                       serial \in {ExtractVariable(cleanedRaw, AI21)},
                       qty \in {ExtractQty(cleanedRaw)}}) :
               cleanedRaw \in {CleanedRaw(r.s)}})

\* a property of an object, "undefined" when the object does not have it
Field(obj, f) == IF f \in DOMAIN obj THEN obj[f] ELSE "undefined"

----------------------------------------------------------------------------
(* STORAGE *)

\* null.  A one-element tuple, so that it compares with a list of rows.
Null == <<[null |-> TRUE]>>

\* the order of IndexedDB string keys: code unit by code unit, a prefix first
RECURSIVE KeyLess(_, _)
KeyLess(a, b) ==
  IF b = << >> THEN FALSE
  ELSE IF a = << >> THEN TRUE
  ELSE IF Head(a) # Head(b) THEN DigitValue(Head(a)) < DigitValue(Head(b))
  ELSE KeyLess(Tail(a), Tail(b))

\* store.put(item) on the 'master' store, whose key path is 'gtin'
Put(store, item) == {r \in store : r.gtin # item.gtin} \cup {item}

\* data.forEach(item => store.put(item))
RECURSIVE PutAll(_, _)
PutAll(store, data) ==
  IF data = << >> THEN store ELSE PutAll(Put(store, Head(data)), Tail(data))

\* store.getAll(): the rows in key order
RECURSIVE GetAll(_)
GetAll(store) ==
  IF store = {} THEN << >>
  ELSE LET first == CHOOSE r \in store :
                      \A o \in store \ {r} : KeyLess(r.gtin, o.gtin)
       IN <<first>> \o GetAll(store \ {first})

\* no restoreJSON call is awaiting the 'history' store
NoRestore == [fn |-> "none"]

\* no call is being stepped through
NoLoop == [fn |-> "none"]

\* no catalog operation under way, the catalog data in memory and stored
CatalogLoaded(data) ==
  /\ masterCount = Len(data)
  /\ pendingMasterData = Null
  /\ masterStore = PutAll({}, data)
  /\ masterTx = << >>
  /\ lastCatalog = data

\* the camera off, as AppState starts
CameraOff ==
  /\ scanning = FALSE
  /\ cameraStream = 0
  /\ streams = {}
  /\ acquired = 0
  /\ starts = [media |-> 0, play |-> 0]
  /\ loops = 0
  /\ currentTab = "scan"

----------------------------------------------------------------------------
(* SCAN PROCESSING *)

\* a value not computed yet
NotRun == [pending |-> TRUE]

\* parsed.qty || '1'
QtyOrOne(p) ==
  IF "qty" \in DOMAIN p /\ p.qty # << >> THEN p.qty ELSE <<"1">>

\* the entry of processScan, without its scanTime
ScanEntry(r, p, m) ==
  [raw |-> r,
   gtin14 |-> Field(p, "gtin14"),
   gtin13 |-> Field(p, "gtin13"),
   expiry |-> Field(p, "expiry"),
   expiryFormatted |-> Field(p, "expiryFormatted"),
   expiryStatus |-> Field(p, "expiryStatus"),
   batch |-> Field(p, "batch"),
   serial |-> Field(p, "serial"),
   qty |-> QtyOrOne(p),
   productName |-> m.name,
   matchType |-> IF p.valid THEN m.matchType ELSE "INVALID"]

\* processScan up to its await saveHistory(entry)
ProcessScan ==
  /\ pc = "idle"
  /\ \E p \in {parseGs1(raw, today, tzWest, lenientDate)} :
       \E m \in {matchProduct(p, masterIndex)} :
         /\ parsed' = p
         /\ match' = m
         /\ entry' = ScanEntry(raw, p, m)
  /\ pc' = "saving"
  /\ historyTx' = Append(historyTx, "scan")
  /\ UNCHANGED <<raw, masterData, masterIndex, today, tzWest, lenientDate,
                 historyRows, historyStore, restoreTask, catalogVars, cameraVars,
                 loop>>

\* saveHistory resolves: the store has added the entry, processScan resumes
HistorySaved ==
  /\ pc = "saving"
  /\ historyTx # << >> /\ Head(historyTx) = "scan"
  /\ historyTx' = Tail(historyTx)
  /\ historyStore' = Append(historyStore, entry)
  /\ historyRows' = <<entry>> \o historyRows
  /\ pc' = "done"
  /\ UNCHANGED <<raw, parsed, match, entry, masterData, masterIndex, today, tzWest,
                 lenientDate, restoreTask, catalogVars, cameraVars, loop>>

\* saveHistory rejects (request.onerror): processScan ends with the rejection
HistoryFailed ==
  /\ pc = "saving"
  /\ historyTx # << >> /\ Head(historyTx) = "scan"
  /\ historyTx' = Tail(historyTx)
  /\ pc' = "failed"
  /\ UNCHANGED <<raw, parsed, match, entry, masterData, masterIndex, today, tzWest,
                 lenientDate, historyRows, historyStore, restoreTask, catalogVars,
                 cameraVars, loop>>

Next == ProcessScan \/ HistorySaved \/ HistoryFailed

\* 2025-06-01 as a day number
FixedToday == DayNumber(2025, 6, 1)

\* the state in which processScan(r) starts, with the catalog data loaded
ScanStart(r, data) ==
  /\ raw = r
  /\ parsed = NotRun
  /\ match = NotRun
  /\ entry = NotRun
  /\ masterData = data
  /\ masterIndex = buildMasterIndex(data)
  /\ historyRows = << >>
  /\ historyStore = << >>
  /\ pc = "idle"
  /\ historyTx = << >>
  /\ restoreTask = NoRestore
  /\ CatalogLoaded(data)
  /\ CameraOff
  /\ loop = NoLoop

FixedClock ==
  /\ today = FixedToday
  /\ tzWest = FALSE
  /\ lenientDate = FALSE

\* all sequences of at most n elements of S
SeqsUpTo(S, n) == UNION {[1..k -> S] : k \in 0..n}

RECURSIVE Concat(_, _)
Concat(ss, i) == IF i > Len(ss) THEN << >> ELSE ss[i] \o Concat(ss, i + 1)

----------------------------------------------------------------------------
(* Matching: scans against catalogs *)

MaxRows == 3

G_06297000001234 == <<"0", "6", "2", "9", "7", "0", "0", "0", "0", "0", "1", "2", "3", "4">>

G_6297000001234 == <<"6", "2", "9", "7", "0", "0", "0", "0", "0", "1", "2", "3", "4">>

G_16297000001234 == <<"1", "6", "2", "9", "7", "0", "0", "0", "0", "0", "1", "2", "3", "4">>

G_00001234 == <<"0", "0", "0", "0", "1", "2", "3", "4">>

G_6297000002345 == <<"6", "2", "9", "7", "0", "0", "0", "0", "0", "2", "3", "4", "5">>

G_06297000009999 == <<"0", "6", "2", "9", "7", "0", "0", "0", "0", "0", "9", "9", "9", "9">>

G_17777700001234 == <<"1", "7", "7", "7", "7", "7", "0", "0", "0", "0", "1", "2", "3", "4">>

G_99999999999999 == <<"9", "9", "9", "9", "9", "9", "9", "9", "9", "9", "9", "9", "9", "9">>

\* catalog rows as parseMasterFile produces them: at least 8 digits and a name
CatalogRows ==
  {[gtin |-> G_6297000001234, name |-> "Vitamin D 1000 IU"],
   [gtin |-> G_16297000001234, name |-> "Vitamin D carton"],
   [gtin |-> G_00001234, name |-> "Local item"],
   [gtin |-> G_6297000002345, name |-> "Vitamin D 50000 IU"],
   [gtin |-> G_6297000001234, name |-> ""]}

Catalogs == SeqsUpTo(CatalogRows, MaxRows)

MatchScans ==
  {Str(AI01 \o G_06297000001234),
   Str(AI01 \o G_6297000001234),
   Str(AI01 \o G_16297000001234),
   Str(AI01 \o G_06297000009999),
   Str(AI01 \o G_17777700001234),
   Str(AI01 \o G_99999999999999),
   Str(AI10 \o <<"A", "B", "C">>),
   Str(<< >>)}

InitMatch ==
  /\ FixedClock
  /\ \E r \in MatchScans : \E data \in Catalogs : ScanStart(r, data)

SpecMatch == InitMatch /\ [][Next]_vars

----------------------------------------------------------------------------
(* Extraction: scans built from fragments *)

MaxElems == 3

D_629700000123 == <<"6", "2", "9", "7", "0", "0", "0", "0", "0", "1", "2", "3">>

D_62970000012 == <<"6", "2", "9", "7", "0", "0", "0", "0", "0", "1", "2">>

Date_250630 == <<"2", "5", "0", "6", "3", "0">>

\* fragments of GTIN scans: the AI bracketed and bare, digit runs of 11 to 14
\* digits, one more digit to lengthen a run, an expiry element, a blank
GtinFragments ==
  {AI01,
   <<"0", "1">>,
   G_06297000001234,
   G_16297000001234,
   G_6297000001234,
   D_629700000123,
   D_62970000012,
   <<"5">>,
   AI17 \o Date_250630,
   <<" ">>}

\* the strings made of at most MaxElems fragments, and the values that are no strings
ScansOf(fragments) ==
  {Str(Concat(fs, 1)) : fs \in SeqsUpTo(fragments, MaxElems)} \cup NonStrings

SampleCatalog ==
  <<[gtin |-> G_6297000001234, name |-> "Vitamin D 1000 IU"],
    [gtin |-> G_6297000002345, name |-> "Vitamin D 50000 IU"]>>

InitGtin ==
  /\ FixedClock
  /\ \E r \in ScansOf(GtinFragments) : ScanStart(r, SampleCatalog)

SpecGtin == InitGtin /\ [][Next]_vars

\* elements of bracketed scans: batch, serial and quantity values that end at a
\* two-digit AI, at a three-digit AI, at a character outside the value class or at
\* the end of the input
VariableFragments ==
  {AI10 \o <<"A", "B", "C", "0", "0", "1">>,
   AI10 \o <<" ", "L", "-", "1", "/", "2", ".", "x", " ">>,
   AI21 \o <<"S", "N", "1", "2", "3">>,
   AI21 \o <<" ">>,
   AI30 \o <<"1", "0", "0">>,
   AI30,
   <<"(", "2", "4", "0", ")", "Z">>,
   AI17 \o Date_250630,
   <<"#", "7">>}

\* (01)06297000001234(17)250630(10)ABC001(21)SN123
Example1 ==
  Str(AI01 \o G_06297000001234 \o AI17 \o Date_250630 \o AI10 \o <<"A", "B", "C", "0", "0", "1">>
        \o AI21 \o <<"S", "N", "1", "2", "3">>)

InitVariable ==
  /\ FixedClock
  /\ \E r \in ScansOf(VariableFragments) \cup {Example1} : ScanStart(r, SampleCatalog)

SpecVariable == InitVariable /\ [][Next]_vars

----------------------------------------------------------------------------
(* Properties of the matcher *)

Scanned == pc # "idle"

HasExact == MapHas(masterIndex.exact, parsed.gtin14) \/ MapHas(masterIndex.exact, parsed.gtin13)

\* the rows of the catalog whose canonical GTIN ends in the scan's last 8 digits
Last8Rows ==
  {i \in 1..Len(masterData) :
     SliceLast(CanonicalGtin(masterData[i]), Last8Len) = SliceLast(parsed.gtin14, Last8Len)}

\* the five 6-digit windows of the scan's last 10 digits
ScanWindows ==
  {Substring(SliceLast(parsed.gtin14, Last10Len), i, i + Seq6Len) :
     i \in 0..(Last10Len - Seq6Len)}

\* the rows of the catalog whose canonical GTIN contains one of the windows
WindowRows ==
  {i \in 1..Len(masterData) :
     \E w \in ScanWindows : Includes(CanonicalGtin(masterData[i]), w)}

GtinsOf(rows) == {CanonicalGtin(masterData[i]) : i \in rows}

NamesOf(rows) == {masterData[i].name : i \in rows}

Result(name, type) == [name |-> name, matchType |-> type]

\* C1: a valid scan whose gtin14 or gtin13 is a key of the exact map is matched
\* EXACT, whatever the last-8 bucket of that GTIN holds.
C1_ExactFirst ==
  (Scanned /\ parsed.valid /\ HasExact) => match.matchType = "EXACT"

C1_Witness ==
  /\ pc = "done"
  /\ parsed.valid
  /\ MapHas(masterIndex.exact, parsed.gtin14)
  /\ Cardinality(GtinsOf(Last8Rows)) > 1
  /\ match.matchType = "EXACT"

\* C2: with no exact match, one distinct catalog GTIN in the last-8 bucket gives
\* LAST8 with the name of an entry of the bucket (a duplicated row counts once),
\* and more than one distinct GTIN gives AMBIGUOUS-LAST8 with an empty name.
C2_Last8ByDistinctGtin ==
  (Scanned /\ parsed.valid /\ ~HasExact) =>
     /\ Cardinality(GtinsOf(Last8Rows)) = 1 =>
          (match.matchType = "LAST8" /\ match.name \in NamesOf(Last8Rows))
     /\ Cardinality(GtinsOf(Last8Rows)) > 1 => match = Result("", "AMBIGUOUS-LAST8")

\* C3: with no exact match and an empty last-8 bucket, the number of distinct
\* catalog GTINs containing a 6-digit window of the scan's last 10 digits decides:
\* none gives NONE, one gives SEQ6 with that product's name, more give
\* AMBIGUOUS-SEQ6.
C3_Seq6ByDistinctGtin ==
  (Scanned /\ parsed.valid /\ ~HasExact /\ Last8Rows = {}) =>
     /\ Cardinality(GtinsOf(WindowRows)) = 0 => match = Result("", "NONE")
     /\ Cardinality(GtinsOf(WindowRows)) = 1 =>
          (match.matchType = "SEQ6" /\ match.name \in NamesOf(WindowRows))
     /\ Cardinality(GtinsOf(WindowRows)) > 1 => match = Result("", "AMBIGUOUS-SEQ6")

\* C4: an invalid scan is matched INVALID whatever the index is, and a valid scan
\* is matched NONE with an empty name when the index is missing or its exact map
\* is empty.
C4_ShortCircuits ==
  Scanned =>
     /\ ~parsed.valid =>
          /\ match = Result("", "INVALID")
          /\ matchProduct(parsed, NoIndex) = Result("", "INVALID")
          /\ matchProduct(parsed, EmptyIndex) = Result("", "INVALID")
     /\ parsed.valid =>
          /\ matchProduct(parsed, NoIndex) = Result("", "NONE")
          /\ MapSize(masterIndex.exact) = 0 => match = Result("", "NONE")

C4_Witness ==
  /\ pc = "done"
  /\ ~parsed.valid
  /\ MapSize(masterIndex.exact) = 0
  /\ match.matchType = "INVALID"

MatchTypes ==
  {"EXACT", "LAST8", "SEQ6", "AMBIGUOUS-LAST8", "AMBIGUOUS-SEQ6", "NONE", "INVALID"}

\* C5: the match type is one of the seven values, and the name is empty unless
\* the type is EXACT, LAST8 or SEQ6.
C5_NameOnlyWhenResolved ==
  Scanned =>
     /\ match.matchType \in MatchTypes
     /\ match.matchType \notin {"EXACT", "LAST8", "SEQ6"} => match.name = ""

C5_Witness ==
  /\ pc = "done"
  /\ match.matchType = "AMBIGUOUS-LAST8"
  /\ match.name = ""
  /\ \A i \in Last8Rows : masterData[i].name # ""

----------------------------------------------------------------------------
(* Properties of the extractor *)

IsString(r) == r.type = "string"

AllDigits(s) == \A i \in 1..Len(s) : IsDigit(s[i])

\* the property f of obj is absent or the empty string (falsy)
NoText(obj, f) == f \notin DOMAIN obj \/ obj[f] = << >>

\* obj carries a non-empty error message
HasMessage(obj) == "error" \in DOMAIN obj /\ obj.error # ""

\* C6: when a GTIN is extracted, gtin14 is 14 digits and gtin13 is gtin14 without
\* its leading zero if it has one, gtin14 itself otherwise.
C6_GtinForms ==
  (Scanned /\ parsed.valid) =>
     /\ Len(parsed.gtin14) = 14
     /\ AllDigits(parsed.gtin14)
     /\ parsed.gtin13 = IF parsed.gtin14[1] = "0" THEN Tail(parsed.gtin14) ELSE parsed.gtin14

\* the 12-digit fallback has acted: (01)629700000123 gives 00629700000123
C6_Witness ==
  /\ pc = "done"
  /\ raw = Str(AI01 \o D_629700000123)
  /\ parsed.valid
  /\ parsed.gtin14 = <<"0", "0">> \o D_629700000123
  /\ parsed.gtin13 = <<"0">> \o D_629700000123

\* C7 as stated: gtin13 is empty or exactly 13 digits long.
C7_Gtin13EmptyOr13 ==
  Scanned =>
     \/ NoText(parsed, "gtin13")
     \/ Len(parsed.gtin13) = 13

\* C7 amended: gtin13 is absent, empty, 13 digits long, or the 14 digits of a
\* gtin14 that does not start with 0.
C7_Gtin13Amended ==
  Scanned =>
     \/ NoText(parsed, "gtin13")
     \/ Len(parsed.gtin13) = 13 /\ AllDigits(parsed.gtin13)
     \/ /\ Len(parsed.gtin13) = 14
        /\ parsed.gtin13 = parsed.gtin14
        /\ parsed.gtin14[1] # "0"

C7_Witness ==
  /\ pc = "done"
  /\ raw = Str(AI01 \o G_16297000001234)
  /\ Len(parsed.gtin13) = 14

\* C8: for a string input the result is valid exactly when gtin14 is not empty, and
\* a result without GTIN has valid = false, match type INVALID and an error message.
C8_ValidIffGtin ==
  (Scanned /\ IsString(raw)) =>
     /\ parsed.valid <=> ~NoText(parsed, "gtin14")
     /\ NoText(parsed, "gtin14") =>
          /\ parsed.valid = FALSE
          /\ Field(parsed, "matchType") = "INVALID"
          /\ HasMessage(parsed)

\* C9: an empty or non-string input gives an invalid result with match type
\* INVALID and an error message.
C9_EmptyInputInvalid ==
  (Scanned /\ EmptyOrNotString(raw)) =>
     /\ parsed.valid = FALSE
     /\ Field(parsed, "matchType") = "INVALID"
     /\ HasMessage(parsed)

\* the positions of the input where ai is followed by a non-empty run of value
\* characters that ends at a two-digit AI or at the end of the input
ValuePositions(s, ai) ==
  {i \in 0..(Len(s) - 1) :
     /\ StartsWithAt(s, i, ai)
     /\ RunLen(s, i + Len(ai), BatchChars) >= 1
     /\ AiLookahead(s, i + Len(ai) + RunLen(s, i + Len(ai), BatchChars))}

\* the run of value characters after the first such position, trimmed
ValueRun(s, ai) ==
  LET i == MinOf(ValuePositions(s, ai))
  IN  Trim(Substring(s, i + Len(ai), i + Len(ai) + RunLen(s, i + Len(ai), BatchChars)))

\* the positions of the input where (30) is followed by a digit
QtyPositions(s) ==
  {i \in 0..(Len(s) - 1) : StartsWithAt(s, i, AI30) /\ RunLen(s, i + 4, Digits) >= 1}

Bracketed(r) == IsString(r) /\ \E i \in 1..Len(r.s) : r.s[i] = "("

\* C10: in a bracketed input, batch (serial) is the trimmed run of value characters
\* after (10) (after (21)) that ends at the first two-digit AI or at the end of the
\* input; quantity is the digit run after (30), and "1" when there is no (30); the
\* scan (01)06297000001234(17)250630(10)ABC001(21)SN123 gives the fields of Example 1.
C10_VariableFields ==
  (Scanned /\ Bracketed(raw)) =>
     /\ ValuePositions(raw.s, AI10) # {} => parsed.batch = ValueRun(raw.s, AI10)
     /\ ValuePositions(raw.s, AI21) # {} => parsed.serial = ValueRun(raw.s, AI21)
     /\ QtyPositions(raw.s) # {} =>
          parsed.qty = LET i == MinOf(QtyPositions(raw.s))
                       IN  Substring(raw.s, i + 4, i + 4 + RunLen(raw.s, i + 4, Digits))
     /\ ~Includes(raw.s, AI30) => parsed.qty = <<"1">>
     /\ raw = Example1 =>
          /\ parsed.gtin14 = G_06297000001234
          /\ parsed.gtin13 = G_6297000001234
          /\ parsed.expiry = <<"2", "0", "2", "5", "-", "0", "6", "-", "3", "0">>
          /\ parsed.batch = <<"A", "B", "C", "0", "0", "1">>
          /\ parsed.serial = <<"S", "N", "1", "2", "3">>
          /\ parsed.qty = <<"1">>

\* a padded batch that ends at (21), and a quantity: (10) L-1/2.x (21)SN123(30)100
C10_Witness ==
  /\ pc = "done"
  /\ raw = Str(AI10 \o <<" ", "L", "-", "1", "/", "2", ".", "x", " ">>
                 \o AI21 \o <<"S", "N", "1", "2", "3">> \o AI30 \o <<"1", "0", "0">>)
  /\ parsed.batch = <<"L", "-", "1", "/", "2", ".", "x">>
  /\ parsed.serial = <<"S", "N", "1", "2", "3">>
  /\ parsed.qty = <<"1", "0", "0">>

----------------------------------------------------------------------------
(* Extraction: scans with elements the extractor has no pattern for *)

\* elements with the five extracted AIs, elements with other two- and three-digit
\* AIs, and pieces of a separator-delimited payload that the decoder brackets
UnrecognizedFragments ==
  {AI01 \o G_06297000001234,
   AI17 \o Date_250630,
   AI10 \o <<"A", "B", "C">>,
   AI21 \o <<"S", "N", "1">>,
   AI30 \o <<"5">>,
   <<"(", "1", "1", ")", "2", "5", "0", "1", "0", "1">>,
   <<"(", "2", "4", "0", ")", "Z">>,
   <<"0", "1">> \o G_06297000001234,
   <<"1", "0", "A", "B", "C">>,
   <<"GS">>,
   <<"2", "4", "0", "Z">>}

InitUnrecognized ==
  /\ FixedClock
  /\ \E r \in ScansOf(UnrecognizedFragments) : ScanStart(r, SampleCatalog)

SpecUnrecognized == InitUnrecognized /\ [][Next]_vars

\* the fields the extractor reads from a cleaned input
ExtractedFields(c) ==
  [gtin14 |-> ExtractGtin(c).gtin14,
   gtin13 |-> ExtractGtin(c).gtin13,
   expiry |-> ExtractExpiry(c, today, tzWest, lenientDate).date.iso,
   batch |-> ExtractVariable(c, AI10),
   serial |-> ExtractVariable(c, AI21),
   qty |-> ExtractQty(c)]

\* the same fields of a result of parseGs1
ParsedFields(p) ==
  [gtin14 |-> p.gtin14, gtin13 |-> p.gtin13, expiry |-> p.expiry,
   batch |-> p.batch, serial |-> p.serial, qty |-> p.qty]

ExtractedAIs == {AI01, AI17, AI10, AI21, AI30}

\* at 0-based i there is a bracketed AI code of n digits
BracketedCodeAt(s, i, n) ==
  /\ i + n + 2 <= Len(s)
  /\ s[i + 1] = "("
  /\ \A k \in 1..n : IsDigit(s[i + 1 + k])
  /\ s[i + n + 2] = ")"

\* at 0-based i there is a bracketed AI of two or three digits that is not extracted
UnrecognizedAt(s, i) ==
  \E n \in {2, 3} :
    BracketedCodeAt(s, i, n) /\ Substring(s, i, i + n + 2) \notin ExtractedAIs

\* the position of the first "(" at or after 0-based j, the length if there is none
NextBracket(s, j) ==
  LET at == {k \in j..(Len(s) - 1) : s[k + 1] = "("}
  IN  IF at = {} THEN Len(s) ELSE MinOf(at)

\* the input without its unrecognized elements (AI)value
RECURSIVE StripUnrecognizedFrom(_, _, _)
StripUnrecognizedFrom(s, i, acc) ==
  IF i >= Len(s) THEN acc
  ELSE IF UnrecognizedAt(s, i)
  THEN StripUnrecognizedFrom(s, NextBracket(s, i + 1), acc)
  ELSE StripUnrecognizedFrom(s, i + 1, Append(acc, s[i + 1]))

StripUnrecognized(s) == StripUnrecognizedFrom(s, 0, << >>)

\* C11: the fields extracted from an input are those extracted from the input
\* without its unrecognized elements: an element (AI)value with an AI outside
\* {01, 17, 10, 21, 30} changes no extracted field, wherever it stands, in a
\* bracketed input and in the output of the decoder.
C11_UnrecognizedIgnored ==
  (Scanned /\ ~EmptyOrNotString(raw)) =>
     ParsedFields(parsed) = ExtractedFields(StripUnrecognized(CleanedRaw(raw.s)))

----------------------------------------------------------------------------
(* Expiry dates: scans with an AI 17 element *)

MaxYear == 28

TwoDigits(n) == PadStart(ToStr(n), 2)

\* YYMMDD values: every month number from 00 to 13 and 99, the days around the
\* ends of the months, day 00 and days past 31
DateValues ==
  {TwoDigits(yy) \o TwoDigits(mm) \o TwoDigits(dd) :
     yy \in 24..MaxYear, mm \in (0..13) \cup {99}, dd \in {0, 1, 2, 28, 29, 30, 31, 32, 99}}

DatePrefixes == {<< >>, AI01 \o G_06297000001234, AI10 \o <<"A", "B", "C">>}

DateSuffixes == {<< >>, AI21 \o <<"S", "N", "1", "2", "3">> \o AI30 \o <<"1", "0", "0">>}

DateScans ==
  {Str(pre \o AI17 \o v \o suf) : pre \in DatePrefixes, v \in DateValues, suf \in DateSuffixes}

\* the local time zone and the engine's Date parser are the environment's
InitDate ==
  /\ today = FixedToday
  /\ tzWest \in BOOLEAN
  /\ lenientDate \in BOOLEAN
  /\ \E r \in DateScans : ScanStart(r, SampleCatalog)

SpecDate == InitDate /\ [][Next]_vars

----------------------------------------------------------------------------
(* Properties of the date normalizer and the expiry status *)

\* the six digits after the first (17) of the scan, as numbers
ScanDate ==
  LET v == MatchDigits(raw.s, AI17, 6, 6).cap
  IN  [year |-> BaseYear + ParseInt(Substring(v, 0, 2)),
       mm |-> ParseInt(Substring(v, 2, 4)),
       dd |-> ParseInt(Substring(v, 4, 6))]

IsoOf(year, mm, dd) ==
  ToStr(year) \o <<"-">> \o TwoDigits(mm) \o <<"-">> \o TwoDigits(dd)

\* C12: a scan whose AI 17 value names a day past the end of its month (31
\* February) has an empty expiry date and the status 'missing'.
C12_NonexistentDayMissing ==
  (Scanned /\ ScanDate.mm \in 1..12 /\ ScanDate.dd > DaysInMonth(ScanDate.year, ScanDate.mm)) =>
     (parsed.expiry = << >> /\ parsed.expiryStatus = "missing")

\* the last day of month mm of a year from 2000 to 2099
LastDayOfMonth(year, mm) ==
  IF mm = 2 THEN (IF year % 4 = 0 THEN 29 ELSE 28)
  ELSE IF mm \in {4, 6, 9, 11} THEN 30 ELSE 31

Date_250200 == <<"2", "5", "0", "2", "0", "0">>

\* C13: a value YYMM00 with MM in 1..12 gives the last calendar day of that month
\* of year 2000+YY; with MM outside 1..12 it gives an empty date; 250200 gives
\* 2025-02-28.
C13_DayZeroIsLastDay ==
  (Scanned /\ ScanDate.dd = 0) =>
     /\ ScanDate.mm \in 1..12 =>
          parsed.expiry = IsoOf(ScanDate.year, ScanDate.mm,
                                LastDayOfMonth(ScanDate.year, ScanDate.mm))
     /\ ScanDate.mm \notin 1..12 => parsed.expiry = << >>
     /\ raw = Str(AI17 \o Date_250200) =>
          parsed.expiry = <<"2", "0", "2", "5", "-", "0", "2", "-", "2", "8">>

\* day 00 of February of a leap year: 240200 gives 2024-02-29
C13_Witness ==
  /\ pc = "done"
  /\ raw = Str(AI17 \o <<"2", "4", "0", "2", "0", "0">>)
  /\ parsed.expiry = <<"2", "0", "2", "4", "-", "0", "2", "-", "2", "9">>
  /\ parsed.expiryFormatted = <<"2", "9", "/", "0", "2", "/", "2", "0", "2", "4">>

\* the input without the (17) element the extractor read: (17) and its six digits
WithoutExpiry(s) ==
  LET i == MinOf({k \in 0..(Len(s) - 1) :
                    StartsWithAt(s, k, AI17) /\ RunLen(s, k + 4, Digits) >= 6})
  IN  Substring(s, 0, i) \o Substring(s, i + 10, Len(s))

\* the fields of a scan from which nothing is extracted
NoFields ==
  [gtin14 |-> << >>, gtin13 |-> << >>, expiry |-> << >>,
   batch |-> << >>, serial |-> << >>, qty |-> <<"1">>]

DaysUntil(iso) ==
  DayNumber(ParseInt(Substring(iso, 0, 4)), ParseInt(Substring(iso, 5, 7)),
            ParseInt(Substring(iso, 8, 10))) - today

\* the status of an expiry date d days from today
StatusOfDays(d) == IF d < 0 THEN "expired" ELSE IF d <= 30 THEN "soon" ELSE "ok"

\* C15: an empty expiry date has the status 'missing'; a non-empty one has the
\* status of its whole-day difference d to today: 'expired' for d < 0, 'soon' for
\* 0 <= d <= 30, 'ok' for d > 30.
C15_StatusByDayDifference ==
  Scanned =>
     /\ parsed.expiry = << >> => parsed.expiryStatus = "missing"
     /\ parsed.expiry # << >> => parsed.expiryStatus = StatusOfDays(DaysUntil(parsed.expiry))

StatusRank(status) ==
  CASE status = "expired" -> 0
    [] status = "soon" -> 1
    [] status = "ok" -> 2

\* ISO dates in calendar order
IsoBefore(a, b) ==
  LET ya == ParseInt(Substring(a, 0, 4))
      yb == ParseInt(Substring(b, 0, 4))
      ma == ParseInt(Substring(a, 5, 7))
      mb == ParseInt(Substring(b, 5, 7))
      da == ParseInt(Substring(a, 8, 10))
      db == ParseInt(Substring(b, 8, 10))
  IN  ya < yb \/ (ya = yb /\ (ma < mb \/ (ma = mb /\ da <= db)))

\* expiry dates to compare the scan's date with: before today, today, 30 and 31
\* days from today, and far from today
ComparedDates ==
  {IsoOf(2024, 2, 29), IsoOf(2025, 3, 15), IsoOf(2025, 5, 31), IsoOf(2025, 6, 1),
   IsoOf(2025, 7, 1), IsoOf(2025, 7, 2), IsoOf(2025, 12, 31)}

\* C16: for the same today, of two expiry dates the earlier one never has the
\* later status in the order expired < soon < ok.
C16_StatusMonotonic ==
  (Scanned /\ parsed.expiry # << >>) =>
     \A e \in ComparedDates :
        \E status \in {getExpiryStatus(e, today, tzWest, lenientDate)} :
           /\ IsoBefore(parsed.expiry, e) =>
                StatusRank(parsed.expiryStatus) <= StatusRank(status)
           /\ IsoBefore(e, parsed.expiry) =>
                StatusRank(status) <= StatusRank(parsed.expiryStatus)

----------------------------------------------------------------------------
(* Index building: catalogs with duplicates, separators and missing names *)

G_6297_0000_01234 ==
  <<"6", "2", "9", "7", "-", "0", "0", "0", "0", " ", "0", "1", "2", "3", "4">>

\* rows of a catalog file and of a restored backup: GTINs of 8, 13 and 14 digits,
\* one written with separators, one without a name, two sharing all their digits
\* under different names, and all but one sharing their last 8 digits
IndexRows ==
  {[gtin |-> G_6297000001234, name |-> "Vitamin D 1000 IU"],
   [gtin |-> G_6297_0000_01234, name |-> "Vitamin D 1000 IU Tab 60s"],
   [gtin |-> G_6297000001234],
   [gtin |-> G_16297000001234, name |-> "Vitamin D carton"],
   [gtin |-> G_00001234, name |-> "Local item"],
   [gtin |-> G_6297000002345, name |-> "Vitamin D 50000 IU"]}

IndexScans == {Example1, Str(AI01 \o <<"0">> \o G_6297000002345)}

InitIndex ==
  /\ FixedClock
  /\ \E r \in IndexScans : \E data \in SeqsUpTo(IndexRows, MaxRows) : ScanStart(r, data)

SpecIndex == InitIndex /\ [][Next]_vars

----------------------------------------------------------------------------
(* Properties of the index builder *)

RowNumbers == 1..Len(masterData)

\* item.name || ''
RowName(i) == IF "name" \in DOMAIN masterData[i] THEN masterData[i].name ELSE ""

\* the digits of row i, left-padded with zeros
RowGtin(i) == CanonicalGtin(masterData[i])

\* the keys row i produces: its canonical GTIN and, if that starts with 0, the
\* GTIN without the first digit
RowKeys(i) ==
  {RowGtin(i)} \cup (IF RowGtin(i)[1] = "0" THEN {Tail(RowGtin(i))} ELSE {})

KeysOf(map) == {map[i].key : i \in 1..Len(map)}

\* the canonical GTIN of row i is 14 digits: zeros followed by the row's digits
IsCanonical(i) ==
  LET digits == SelectSeq(masterData[i].gtin, IsDigit)
      c == RowGtin(i)
  IN  /\ Len(c) = 14
      /\ SubSeq(c, 14 - Len(digits) + 1, 14) = digits
      /\ \A k \in 1..(14 - Len(digits)) : c[k] = "0"

RECURSIVE RowsEndingIn(_, _)
RowsEndingIn(last8, i) ==
  IF i > Len(masterData) THEN << >>
  ELSE (IF SliceLast(RowGtin(i), 8) = last8
        THEN <<[gtin |-> RowGtin(i), name |-> RowName(i)]>>
        ELSE << >>) \o RowsEndingIn(last8, i + 1)

RECURSIVE TotalEntries(_, _)
TotalEntries(map, i) ==
  IF i > Len(map) THEN 0 ELSE Len(map[i].value) + TotalEntries(map, i + 1)

\* C18: the last-8 multimap has one bucket for each last-8 suffix of a row; a
\* bucket holds one (canonical GTIN, name) entry for each row with that suffix,
\* duplicates included, in catalog order; the entries are as many as the rows.
C18_Last8Multimap ==
  Scanned =>
     /\ KeysOf(masterIndex.last8) = {SliceLast(RowGtin(i), 8) : i \in RowNumbers}
     /\ Cardinality(KeysOf(masterIndex.last8)) = Len(masterIndex.last8)
     /\ \A k \in KeysOf(masterIndex.last8) :
          MapGet(masterIndex.last8, k) = RowsEndingIn(k, 1)
     /\ TotalEntries(masterIndex.last8, 1) = Len(masterData)

\* the same row twice around a row of another bucket
C18_Witness ==
  /\ pc = "done"
  /\ Len(masterData) = 3
  /\ masterData[1] = masterData[3]
  /\ masterData[1].gtin = G_16297000001234
  /\ masterData[2].gtin = G_6297000002345
  /\ Len(masterIndex.last8) = 2
  /\ Len(MapGet(masterIndex.last8, SliceLast(G_16297000001234, 8))) = 2

----------------------------------------------------------------------------
(* Decoding: payloads without brackets *)

\* pieces of a raw payload: fixed-length AIs with a full and with a short value,
\* variable-length AIs, a three-digit AI, the separator U+001D, characters that
\* start no AI, a blank, and a bracketed element
DecoderFragments ==
  {<<"0", "1">> \o G_06297000001234,
   <<"0", "1", "0", "6", "2", "9", "7">>,
   <<"1", "7">> \o Date_250630,
   <<"1", "0", "A", "B", "C">>,
   <<"2", "1", "S", "N", "1">>,
   <<"2", "4", "0", "Z">>,
   <<"GS">>,
   <<"#">>,
   <<"9">>,
   <<" ">>,
   AI10 \o <<"A", "B", "C">>}

InitDecode ==
  /\ FixedClock
  /\ \E r \in ScansOf(DecoderFragments) : ScanStart(r, SampleCatalog)

SpecDecode == InitDecode /\ [][Next]_vars

----------------------------------------------------------------------------
(* Properties of the decoder *)

\* the argument parseGs1 has for the decoder: the input trimmed, U+001D as '|'
DecoderInput == ReplaceGs(Trim(raw.s))

DecoderOutput == convertRawToParenthesized(DecoderInput)

\* the scan is a non-empty string without '(' : parseGs1 decodes it
Decoded == IsString(raw) /\ raw.s # << >> /\ ~Bracketed(raw)

\* the token (code)value that starts at 0-based i of the output c
TokenAt(c, i) ==
  LET close == MinOf({k \in i..(Len(c) - 1) : c[k + 1] = ")"} \cup {Len(c)})
  IN  [code |-> Substring(c, i + 1, close),
       value |-> Substring(c, close + 1, NextBracket(c, i + 1))]

TokensOf(c) == {TokenAt(c, i) : i \in {k \in 0..(Len(c) - 1) : c[k + 1] = "("}}

\* the value of token t stands right after its code at i in part, with the length
\* the AI's dictionary entry gives
ValueInPart(t, part, i) ==
  LET n == AiLength(t.code)
      remaining == Len(part) - i - Len(t.code)
  IN  /\ StartsWithAt(part, i, t.code \o t.value)
      /\ Len(t.value) = IF n > 0 /\ n < remaining THEN n ELSE remaining

\* C19: every value the decoder emits is a substring of one part that starts
\* right after its AI code; it has min(n, rest of the part) characters for an AI
\* of fixed length n and runs to the end of the part for a variable-length AI;
\* no value holds a separator.
C19_ValuesWithinParts ==
  (Scanned /\ Decoded /\ DecoderOutput # DecoderInput) =>
     \E c \in {DecoderOutput} : \E parts \in {Split(DecoderInput)} :
        /\ \A k \in 1..Len(c) : c[k] # "|"
        /\ \A t \in TokensOf(c) :
             /\ AiLength(t.code) # -1
             /\ \E p \in 1..Len(parts) : \E i \in 0..Len(parts[p]) :
                  ValueInPart(t, parts[p], i)

\* 0106297<GS>10ABC: the value of 01 stops at the separator, clamped to 5 digits
C19_Witness ==
  /\ pc = "done"
  /\ raw = Str(<<"0", "1", "0", "6", "2", "9", "7", "GS", "1", "0", "A", "B", "C">>)
  /\ DecoderOutput = AI01 \o <<"0", "6", "2", "9", "7">> \o AI10 \o <<"A", "B", "C">>
  /\ parsed.batch = <<"A", "B", "C">>
  /\ ~parsed.valid

\* the positions of part the decoder's loop stands at, from 0-based i on
RECURSIVE ScanPositions(_, _)
ScanPositions(part, i) ==
  IF i >= Len(part) THEN {}
  ELSE {i} \cup ScanPositions(part, IF AiAt(part, i) # << >>
                                     THEN ValueEnd(part, i, AiAt(part, i))
                                     ELSE i + 1)

\* the scan positions of part at which no AI code matches
Unmatched(part) == {i \in ScanPositions(part, 0) : AiAt(part, i) = << >>}

RECURSIVE UnmatchedCount(_, _)
UnmatchedCount(parts, n) ==
  IF n > Len(parts) THEN 0
  ELSE Cardinality(Unmatched(parts[n])) + UnmatchedCount(parts, n + 1)

\* no position of any part starts a 3- or 2-character AI code
NoCodeAnywhere(parts) ==
  \A p \in 1..Len(parts) : \A i \in 0..(Len(parts[p]) - 1) : AiAt(parts[p], i) = << >>

\* C20: the decoder returns its input exactly when no position matches an AI
\* code; otherwise the output is made of (code)value tokens only and holds none
\* of the characters at scan positions without a match; a bracketed input is
\* not decoded.
C20_DecoderOutput ==
  Scanned =>
     /\ Decoded =>
          \E c \in {DecoderOutput} : \E parts \in {Split(DecoderInput)} :
             /\ (c = DecoderInput) <=> NoCodeAnywhere(parts)
             /\ c # DecoderInput =>
                  /\ c[1] = "("
                  /\ \A t \in TokensOf(c) : AiLength(t.code) # -1
                  /\ Len(c) - 2 * Cardinality({k \in 1..Len(c) : c[k] = "("})
                       = Len(DecoderInput) - (Len(parts) - 1) - UnmatchedCount(parts, 1)
             /\ ParsedFields(parsed) = ExtractedFields(c)
     /\ Bracketed(raw) => ParsedFields(parsed) = ExtractedFields(DecoderInput)

\* #0106297000001234 9: the characters # and 9 start no AI and are dropped
C20_Witness ==
  /\ pc = "done"
  /\ raw = Str(<<"#", "0", "1">> \o G_06297000001234 \o <<"9">>)
  /\ DecoderOutput = AI01 \o G_06297000001234
  /\ parsed.valid
  /\ parsed.gtin14 = G_06297000001234

----------------------------------------------------------------------------
(* Round trip: payloads of fixed-length elements *)

\* elements AI + value of the fixed-length AIs, each with a value of full length;
\* the values hold digit pairs that are AI codes themselves
FixedElements ==
  {<<"0", "1">> \o G_06297000001234,
   <<"0", "1">> \o G_16297000001234,
   <<"0", "1">> \o G_17777700001234,
   <<"0", "2">> \o G_06297000001234,
   <<"1", "7">> \o Date_250630,
   <<"1", "7">> \o <<"2", "4", "0", "1", "1", "0">>,
   <<"1", "1">> \o <<"2", "5", "0", "1", "0", "1">>,
   <<"1", "5">> \o <<"3", "0", "1", "0", "2", "1">>,
   <<"2", "0">> \o <<"2", "4">>}

InitRoundTrip ==
  /\ FixedClock
  /\ \E r \in ScansOf(FixedElements) : ScanStart(r, SampleCatalog)

SpecRoundTrip == InitRoundTrip /\ [][Next]_vars

\* the value lengths of the fixed-length AIs
FixedLength(code) ==
  IF code \in {<<"0", "1">>, <<"0", "2">>} THEN 14
  ELSE IF code \in {<<"1", "1">>, <<"1", "2">>, <<"1", "3">>, <<"1", "5">>, <<"1", "6">>,
                    <<"1", "7">>} THEN 6
  ELSE IF code = <<"2", "0">> THEN 2
  ELSE 0

\* from 0-based i on, s is a series of fixed-length elements with full digit values
RECURSIVE IsFixedPayloadFrom(_, _)
IsFixedPayloadFrom(s, i) ==
  IF i = Len(s) THEN TRUE
  ELSE LET n == FixedLength(Substring(s, i, i + 2))
       IN  /\ n > 0
           /\ i + 2 + n <= Len(s)
           /\ AllDigits(Substring(s, i + 2, i + 2 + n))
           /\ IsFixedPayloadFrom(s, i + 2 + n)

\* the hand-written bracketed string of such a payload: (AI)value(AI)value...
RECURSIVE BracketedFrom(_, _)
BracketedFrom(s, i) ==
  IF i >= Len(s) THEN << >>
  ELSE LET n == FixedLength(Substring(s, i, i + 2))
       IN  <<"(">> \o Substring(s, i, i + 2) \o <<")">> \o Substring(s, i + 2, i + 2 + n)
             \o BracketedFrom(s, i + 2 + n)

\* C21: a payload without brackets that is a series of fixed-length AI elements
\* with full-length digit values gives the same GTIN14, GTIN13, expiry, batch,
\* serial and quantity as its bracketed form (AI)value(AI)value...
C21_RoundTrip ==
  (Scanned /\ IsString(raw) /\ raw.s # << >> /\ IsFixedPayloadFrom(raw.s, 0)) =>
     \E p \in {parseGs1(Str(BracketedFrom(raw.s, 0)), today, tzWest, lenientDate)} :
        /\ ParsedFields(parsed) = ParsedFields(p)
        /\ parsed.valid = p.valid
        /\ parsed.expiryStatus = p.expiryStatus

\* 20 24, 17 240110, 01 16297000001234: the values 24 and 240110 start with AI
\* codes and are not read as AIs
C21_Witness ==
  /\ pc = "done"
  /\ raw = Str(<<"2", "0", "2", "4">> \o <<"1", "7", "2", "4", "0", "1", "1", "0">>
                 \o <<"0", "1">> \o G_16297000001234)
  /\ parsed.valid
  /\ parsed.gtin14 = G_16297000001234
  /\ parsed.expiry = <<"2", "0", "2", "4", "-", "0", "1", "-", "1", "0">>

----------------------------------------------------------------------------
(* CATALOG OPERATIONS *)

\* Each handler runs to its await in one step and resumes in a later one, when
\* its transaction on the 'master' store has completed.  Transactions on one
\* store complete in the order they were opened.

MaxCatalog == 4

MaxPending == 2

RowVitaminD == [gtin |-> G_6297000001234, name |-> "Vitamin D 1000 IU"]

RowVitaminD50000 == [gtin |-> G_6297000002345, name |-> "Vitamin D 50000 IU"]

RowRenamed == [gtin |-> G_6297000001234, name |-> "Vitamin D3 1000 IU"]

\* what parseMasterFile returns for the file chosen: a GTIN twice.  Chosen
\* and appended again, its GTIN is in the catalog already.
MasterFiles == {<<RowVitaminD, RowRenamed>>}

\* the master array of the backup restored: two rows out of key order; the
\* backup has no history array
BackupMasters == {<<RowVitaminD50000, RowVitaminD>>}

scanVars == <<raw, parsed, match, entry, today, tzWest, lenientDate>>

historyVars == <<historyRows, historyStore, pc, historyTx, restoreTask>>

RECURSIVE Reverse(_)
Reverse(s) == IF s = << >> THEN << >> ELSE Reverse(Tail(s)) \o <<Head(s)>>

\* AppState.masterData = data
SetMasterData(data) ==
  /\ masterData' = data
  /\ lastCatalog' = IF data = Null THEN lastCatalog ELSE data

\* reader.onload of handleMasterFile
FileParsed ==
  \E data \in MasterFiles :
    /\ Len(data) > 0
    /\ pendingMasterData' = data
    /\ UNCHANGED <<masterData, masterIndex, masterCount, masterStore, masterTx,
                   lastCatalog, scanVars, historyVars, cameraVars, loop>>

\* a handler opens its transaction and awaits it
OpenMasterTx(op, data) ==
  /\ Len(masterTx) < MaxPending
  /\ masterTx' = Append(masterTx, [op |-> op, data |-> data])
  /\ UNCHANGED <<masterData, masterIndex, masterCount, pendingMasterData, masterStore,
                 lastCatalog, scanVars, historyVars, cameraVars, loop>>

\* click on appendMasterBtn, up to await appendMasterData(...)
AppendClick ==
  /\ pendingMasterData # Null
  /\ masterData # Null => Len(masterData) + Len(pendingMasterData) <= MaxCatalog
  /\ OpenMasterTx("append", pendingMasterData)

\* click on replaceMasterBtn, up to await saveMasterData(...)
ReplaceClick ==
  /\ pendingMasterData # Null
  /\ OpenMasterTx("replace", pendingMasterData)

\* the confirmed click on clearMasterBtn, up to await clearMasterData()
ClearConfirmed == OpenMasterTx("clear", << >>)

\* restoreJSON of a backup with a master array, up to await saveMasterData(...)
RestoreMaster == \E data \in BackupMasters : OpenMasterTx("restore", data)

\* the oldest transaction on the 'master' store is of op
MasterTxIs(op) == masterTx # << >> /\ Head(masterTx).op = op

MasterTxData == Head(masterTx).data

\* an append that indexes the appended rows only
AppendDone_IndexOfNewRows ==
  /\ MasterTxIs("append")
  /\ masterStore' = PutAll(masterStore, MasterTxData)
  /\ masterTx' = Tail(masterTx)
  /\ IF masterData = Null \/ pendingMasterData = Null
     THEN UNCHANGED <<masterData, masterIndex, masterCount, pendingMasterData,
                      lastCatalog>>
     ELSE /\ SetMasterData(masterData \o pendingMasterData)
          /\ masterIndex' = buildMasterIndex(pendingMasterData)
          /\ masterCount' = Len(masterData \o pendingMasterData)
          /\ pendingMasterData' = Null
  /\ UNCHANGED <<scanVars, historyVars, cameraVars, loop>>

\* appendMasterData resolves and the append handler runs to its end.  The
\* spread of a null throws, before anything is assigned.
AppendDone ==
  /\ MasterTxIs("append")
  /\ masterStore' = PutAll(masterStore, MasterTxData)
  /\ masterTx' = Tail(masterTx)
  /\ IF masterData = Null \/ pendingMasterData = Null
     THEN UNCHANGED <<masterData, masterIndex, masterCount, pendingMasterData,
                      lastCatalog>>
     ELSE /\ SetMasterData(masterData \o pendingMasterData)
          /\ masterIndex' = buildMasterIndex(masterData \o pendingMasterData)
          /\ masterCount' = Len(masterData \o pendingMasterData)
          /\ pendingMasterData' = Null
  /\ UNCHANGED <<scanVars, historyVars, cameraVars, loop>>

\* saveMasterData resolves and the replace handler runs to its end.  The
\* for...of of buildMasterIndex throws on null, after masterData was assigned.
ReplaceDone ==
  /\ MasterTxIs("replace")
  /\ masterStore' = PutAll({}, MasterTxData)
  /\ masterTx' = Tail(masterTx)
  /\ SetMasterData(pendingMasterData)
  /\ IF pendingMasterData = Null
     THEN UNCHANGED <<masterIndex, masterCount, pendingMasterData>>
     ELSE /\ masterIndex' = buildMasterIndex(pendingMasterData)
          /\ masterCount' = Len(pendingMasterData)
          /\ pendingMasterData' = Null
  /\ UNCHANGED <<scanVars, historyVars, cameraVars, loop>>

\* clearMasterData resolves and the clear handler runs to its end
ClearDone ==
  /\ MasterTxIs("clear")
  /\ masterStore' = {}
  /\ masterTx' = Tail(masterTx)
  /\ SetMasterData(<< >>)
  /\ masterIndex' = EmptyIndex
  /\ masterCount' = 0
  /\ UNCHANGED <<pendingMasterData, scanVars, historyVars, cameraVars, loop>>

\* saveMasterData resolves and restoreJSON runs to its end
RestoreDone ==
  /\ MasterTxIs("restore")
  /\ masterStore' = PutAll({}, MasterTxData)
  /\ masterTx' = Tail(masterTx)
  /\ SetMasterData(MasterTxData)
  /\ masterIndex' = buildMasterIndex(MasterTxData)
  /\ masterCount' = Len(MasterTxData)
  /\ UNCHANGED <<pendingMasterData, scanVars, historyVars, cameraVars, loop>>

\* the oldest transaction aborts (tx.onerror, request.onerror): the store keeps
\* its rows, the promise rejects and the handler ends at its await
MasterTxFailed ==
  /\ masterTx # << >>
  /\ masterTx' = Tail(masterTx)
  /\ UNCHANGED <<masterData, masterIndex, masterCount, pendingMasterData, masterStore,
                 lastCatalog, scanVars, historyVars, cameraVars, loop>>

\* the page is loaded again with nothing in flight: AppState as declared, then
\* init() up to setupEventListeners()
Reload ==
  /\ masterTx = << >> /\ historyTx = << >> /\ restoreTask = NoRestore
  /\ historyRows' = Reverse(historyStore)
  /\ pendingMasterData' = Null
  /\ \E master \in {GetAll(masterStore)} :
       IF Len(master) > 0
       THEN /\ SetMasterData(master)
            /\ masterIndex' = buildMasterIndex(master)
            /\ masterCount' = Len(master)
       ELSE /\ SetMasterData(<< >>)
            /\ masterIndex' = EmptyIndex
            /\ masterCount' = 0
  /\ UNCHANGED <<masterStore, masterTx, scanVars, historyStore, pc, historyTx,
                 restoreTask, cameraVars, loop>>

NextCatalog ==
  \/ FileParsed
  \/ AppendClick
  \/ ReplaceClick
  \/ ClearConfirmed
  \/ RestoreMaster
  \/ AppendDone
  \/ ReplaceDone
  \/ ClearDone
  \/ RestoreDone
  \/ MasterTxFailed
  \/ Reload
  \/ ProcessScan
  \/ HistorySaved
  \/ HistoryFailed

\* the application after init() on empty stores, about to scan Example 1
InitCatalog ==
  /\ FixedClock
  /\ ScanStart(Example1, << >>)

SpecCatalog == InitCatalog /\ [][NextCatalog]_vars

\* C22: whatever the interleaving of processScan with the catalog operations,
\* the index matchProduct reads is never partially populated: it is the empty
\* index or buildMasterIndex(R) of a row list R that was the whole catalog at
\* some point.
C22_IndexNeverPartial ==
  \/ masterIndex = EmptyIndex
  \/ masterIndex = buildMasterIndex(lastCatalog)

\* a scan matched by the index while an append is awaiting the store
C22_Witness ==
  /\ pc = "saving"
  /\ match.matchType = "EXACT"
  /\ MasterTxIs("append")
  /\ Len(lastCatalog) = 2

\* C23: in every reachable state, whatever the catalog operations and their
\* interleaving, the catalog in memory is a list of rows, the active index is
\* buildMasterIndex of that list and masterCount is its length.
C23_CatalogConsistent ==
  /\ masterData # Null
  /\ masterIndex = buildMasterIndex(masterData)
  /\ masterCount = Len(masterData)

\* how often x occurs in the list s
Occurrences(s, x) == Cardinality({i \in 1..Len(s) : s[i] = x})

\* two lists with the same elements as often, in any order
SameEntries(a, b) ==
  \A x \in {a[i] : i \in 1..Len(a)} \cup {b[i] : i \in 1..Len(b)} :
    Occurrences(a, x) = Occurrences(b, x)

\* two indexes with the same keys, the same name under each key of exact and
\* the same entries under each key of last8
SameIndex(a, b) ==
  /\ KeysOf(a.exact) = KeysOf(b.exact)
  /\ \A k \in KeysOf(a.exact) : MapGet(a.exact, k) = MapGet(b.exact, k)
  /\ KeysOf(a.last8) = KeysOf(b.last8)
  /\ \A k \in KeysOf(a.last8) : SameEntries(MapGet(a.last8, k), MapGet(b.last8, k))

\* C25: with no catalog operation under way, the rows of the 'master' store are
\* the rows of the catalog in memory, and loading them as init() does gives the
\* same masterCount and the same index.
C25_StoreMatchesMemory ==
  masterTx = << >> =>
    /\ masterData # Null
    /\ SameEntries(GetAll(masterStore), masterData)
    /\ Len(GetAll(masterStore)) = masterCount
    /\ SameIndex(buildMasterIndex(GetAll(masterStore)), masterIndex)

----------------------------------------------------------------------------
(* THE LOOPS, ITERATION BY ITERATION *)

\* convertRawToParenthesized(raw) and then matchProduct(parsed, index) with
\* parsed = parseGs1(raw), one loop iteration per step.

\* pieces of a raw payload: two GTIN elements, a date, a batch, a three-digit
\* AI, a two-digit fixed AI without its value, the part separator, a character
\* that starts no AI
LoopFragments ==
  {<<"0", "1">> \o G_06297000001234,
   <<"0", "1">> \o G_06297000009999,
   <<"1", "7">> \o Date_250630,
   <<"1", "0", "A", "B", "C">>,
   <<"2", "4", "0", "Z">>,
   <<"2", "0">>,
   <<"|">>,
   <<"#">>}

LoopInputs == {Concat(fs, 1) : fs \in SeqsUpTo(LoopFragments, MaxElems)}

\* the arguments of the two calls: the payload, and the parsed payload with
\* the index of a catalog
InitLoops ==
  /\ FixedClock
  /\ \E s \in LoopInputs : \E data \in {SampleCatalog, << >>} :
       /\ raw = Str(s)
       /\ parsed = parseGs1(Str(s), FixedToday, FALSE, FALSE)
       /\ masterData = data
       /\ masterIndex = buildMasterIndex(data)
       /\ CatalogLoaded(data)
  /\ match = NotRun
  /\ entry = NotRun
  /\ historyRows = << >>
  /\ historyStore = << >>
  /\ pc = "idle"
  /\ historyTx = << >>
  /\ restoreTask = NoRestore
  /\ CameraOff
  /\ loop = NoLoop

loopUnchanged ==
  <<raw, parsed, match, entry, masterData, masterIndex, today, tzWest, lenientDate,
    historyVars, catalogVars, cameraVars>>

\* entry of convertRawToParenthesized: result = '', parts = raw.split('|')
ConvertCall ==
  /\ loop.fn = "none"
  /\ loop' = [fn |-> "convert", parts |-> Split(raw.s), n |-> 1, i |-> 0,
              result |-> << >>]
  /\ UNCHANGED loopUnchanged

\* an iteration that moves the position by the length of the value only
WhileStep_ByValueLength ==
  /\ loop.fn = "convert"
  /\ loop.n <= Len(loop.parts)
  /\ loop.i < Len(loop.parts[loop.n])
  /\ \E part \in {loop.parts[loop.n]} :
       \E ai \in {AiAt(part, loop.i)} :
         IF ai # << >>
         THEN \E valueEnd \in {ValueEnd(part, loop.i, ai)} :
                loop' = [loop EXCEPT
                           !.result = @ \o <<"(">> \o ai \o <<")">>
                                        \o Substring(part, loop.i + Len(ai), valueEnd),
                           !.i = valueEnd - Len(ai)]
         ELSE loop' = [loop EXCEPT !.i = @ + 1]
  /\ UNCHANGED loopUnchanged

\* one iteration of while (i < part.length)
WhileStep ==
  /\ loop.fn = "convert"
  /\ loop.n <= Len(loop.parts)
  /\ loop.i < Len(loop.parts[loop.n])
  /\ \E part \in {loop.parts[loop.n]} :
       \E ai \in {AiAt(part, loop.i)} :
         IF ai # << >>
         THEN \E valueEnd \in {ValueEnd(part, loop.i, ai)} :
                loop' = [loop EXCEPT
                           !.result = @ \o <<"(">> \o ai \o <<")">>
                                        \o Substring(part, loop.i + Len(ai), valueEnd),
                           !.i = valueEnd]
         ELSE loop' = [loop EXCEPT !.i = @ + 1]
  /\ UNCHANGED loopUnchanged

\* the while loop of one part is left and for (const part of parts) moves on
NextPart ==
  /\ loop.fn = "convert"
  /\ loop.n <= Len(loop.parts)
  /\ loop.i >= Len(loop.parts[loop.n])
  /\ loop' = [loop EXCEPT !.n = @ + 1, !.i = 0]
  /\ UNCHANGED loopUnchanged

\* return result || raw
ConvertReturn ==
  /\ loop.fn = "convert"
  /\ loop.n > Len(loop.parts)
  /\ loop' = [fn |-> "converted",
              text |-> IF loop.result # << >> THEN loop.result ELSE raw.s]
  /\ UNCHANGED loopUnchanged

\* matchProduct up to its seq6 loops: the early returns, the exact tier and the
\* last-8 tier, then last10 and an empty seq6Matches
MatchCall ==
  /\ loop.fn = "converted"
  /\ \E p \in {parsed} :
       IF ~p.valid \/ IndexMissing(masterIndex) \/ MapSize(masterIndex.exact) = 0
          \/ ExactTier(p.gtin14, p.gtin13, masterIndex).decided
          \/ Last8Tier(p.gtin14, masterIndex).decided
       THEN loop' = [fn |-> "returned", value |-> matchProduct(p, masterIndex)]
       ELSE loop' = [fn |-> "match", last10 |-> SliceLast(p.gtin14, Last10Len),
                     i |-> 0, j |-> 1, seq6Matches |-> << >>]
  /\ UNCHANGED loopUnchanged

\* one iteration of for (const [gtin, name] of index.exact)
EntryStep ==
  /\ loop.fn = "match"
  /\ loop.i <= Len(loop.last10) - Seq6Len
  /\ loop.j <= Len(masterIndex.exact)
  /\ \E gtin \in {masterIndex.exact[loop.j].key} :
       loop' = [loop EXCEPT
                  !.j = @ + 1,
                  !.seq6Matches =
                    IF /\ Includes(gtin, Substring(loop.last10, loop.i, loop.i + Seq6Len))
                       /\ ~\E m \in 1..Len(@) : @[m].gtin = gtin
                    THEN Append(@, [gtin |-> gtin, name |-> masterIndex.exact[loop.j].value])
                    ELSE @]
  /\ UNCHANGED loopUnchanged

\* the for...of is exhausted and the window loop does i++
NextWindow ==
  /\ loop.fn = "match"
  /\ loop.i <= Len(loop.last10) - Seq6Len
  /\ loop.j > Len(masterIndex.exact)
  /\ loop' = [loop EXCEPT !.i = @ + 1, !.j = 1]
  /\ UNCHANGED loopUnchanged

\* the window loop is left: the return by seq6Matches.length
MatchReturn ==
  /\ loop.fn = "match"
  /\ loop.i > Len(loop.last10) - Seq6Len
  /\ loop' = [fn |-> "returned",
              value |-> IF Len(loop.seq6Matches) = 1
                        THEN [name |-> loop.seq6Matches[1].name, matchType |-> "SEQ6"]
                        ELSE IF Len(loop.seq6Matches) > 1
                        THEN [name |-> "", matchType |-> "AMBIGUOUS-SEQ6"]
                        ELSE [name |-> "", matchType |-> "NONE"]]
  /\ UNCHANGED loopUnchanged

NextLoops ==
  \/ ConvertCall
  \/ WhileStep
  \/ NextPart
  \/ ConvertReturn
  \/ MatchCall
  \/ EntryStep
  \/ NextWindow
  \/ MatchReturn

SpecLoops == InitLoops /\ [][NextLoops]_vars

\* a call that has started keeps running: the engine executes the next
\* statement of synchronous code
SpecLoopsFair == SpecLoops /\ WF_vars(NextLoops)

\* an iteration of the while loop: same part before and after
WhileIteration ==
  /\ loop.fn = "convert" /\ loop'.fn = "convert"
  /\ loop'.n = loop.n

\* the iteration moved the position forward: past the AI code at least on a
\* match, by one otherwise
PositionAdvances ==
  LET ai == AiAt(loop.parts[loop.n], loop.i)
  IN  IF ai # << >> THEN loop'.i >= loop.i + Len(ai) /\ Len(ai) >= 2
      ELSE loop'.i = loop.i + 1

\* the values returned are those of the functions computed in one piece
SameAsInOnePiece ==
  /\ loop.fn = "converted" => loop.text = convertRawToParenthesized(raw.s)
  /\ loop.fn = "returned" =>
       loop.value = matchProduct(parsed, masterIndex)

\* C24: convertRawToParenthesized terminates on every input, its position
\* strictly increasing in each iteration (by the AI code length at least on a
\* match, by one otherwise), and matchProduct terminates for every catalog.
C24_LoopsTerminate ==
  /\ [][WhileIteration => PositionAdvances]_vars
  /\ []SameAsInOnePiece
  /\ <>(loop.fn = "returned")

\* the seq6 loops have run over a catalog after a decoder run that matched AIs
C24_Witness ==
  /\ loop.fn = "returned"
  /\ loop.value.matchType = "AMBIGUOUS-SEQ6"
  /\ Len(Split(raw.s)) = 2
  /\ convertRawToParenthesized(raw.s) # raw.s

----------------------------------------------------------------------------
(* HISTORY OPERATIONS *)

\* processScan, the clear-history handler and restoreJSON against the
\* 'history' store.  Each await is on one transaction; transactions on the
\* store complete in the order they were opened.

\* the entry processScan made of a payload in an earlier session
EntryOf(r) ==
  TheOne({ScanEntry(r, p, matchProduct(p, EmptyIndex)) :
          p \in {parseGs1(r, FixedToday, FALSE, FALSE)}})

\* the history arrays of the backups restored
BackupHistories ==
  {<< >>,
   <<EntryOf(Example1)>>,
   <<EntryOf(Example1), EntryOf(Str(AI01 \o G_06297000009999))>>}

historyUnchanged ==
  <<raw, parsed, match, entry, masterData, masterIndex, today, tzWest, lenientDate,
    pc, catalogVars, cameraVars, loop>>

\* the confirmed click on clearHistoryBtn, up to await clearHistory()
ClearHistoryConfirmed ==
  /\ Len(historyTx) < MaxPending
  /\ historyTx' = Append(historyTx, "clear")
  /\ UNCHANGED <<historyRows, historyStore, restoreTask, historyUnchanged>>

\* clearHistory resolves and the handler runs to its end
ClearHistoryDone ==
  /\ historyTx # << >> /\ Head(historyTx) = "clear"
  /\ historyTx' = Tail(historyTx)
  /\ historyStore' = << >>
  /\ historyRows' = << >>
  /\ UNCHANGED <<restoreTask, historyUnchanged>>

\* restoreJSON of a backup with a history array, up to await clearHistory();
\* k counts the entries whose saveHistory has been awaited
RestoreHistory ==
  /\ restoreTask = NoRestore
  /\ Len(historyTx) < MaxPending
  /\ \E history \in BackupHistories :
       restoreTask' = [fn |-> "restoreJSON", history |-> history, k |-> 0]
  /\ historyTx' = Append(historyTx, "restore")
  /\ UNCHANGED <<historyRows, historyStore, historyUnchanged>>

\* the transaction restoreJSON awaits completes: clearHistory() when k = 0,
\* saveHistory of entry k otherwise.  restoreJSON goes on to the next entry,
\* or after the last one assigns AppState.historyRows = data.history.
RestoreStep ==
  /\ historyTx # << >> /\ Head(historyTx) = "restore"
  /\ historyStore' = IF restoreTask.k = 0 THEN << >>
                     ELSE Append(historyStore, restoreTask.history[restoreTask.k])
  /\ IF restoreTask.k < Len(restoreTask.history)
     THEN /\ restoreTask' = [restoreTask EXCEPT !.k = @ + 1]
          /\ historyTx' = Append(Tail(historyTx), "restore")
          /\ UNCHANGED historyRows
     ELSE /\ restoreTask' = NoRestore
          /\ historyTx' = Tail(historyTx)
          /\ historyRows' = restoreTask.history
  /\ UNCHANGED historyUnchanged

\* the oldest transaction fails (request.onerror) and it is the handler's or
\* restoreJSON's: the promise rejects and the function ends at its await
HistoryTxFailed ==
  /\ historyTx # << >> /\ Head(historyTx) \in {"clear", "restore"}
  /\ historyTx' = Tail(historyTx)
  /\ restoreTask' = IF Head(historyTx) = "restore" THEN NoRestore ELSE restoreTask
  /\ UNCHANGED <<historyRows, historyStore, historyUnchanged>>

NextHistory ==
  \/ ProcessScan
  \/ HistorySaved
  \/ HistoryFailed
  \/ ClearHistoryConfirmed
  \/ ClearHistoryDone
  \/ RestoreHistory
  \/ RestoreStep
  \/ HistoryTxFailed

\* the application after init() on empty stores, about to scan
InitHistory ==
  /\ FixedClock
  /\ \E r \in {Example1, Str(AI01 \o G_06297000009999), Str(<<"#">>)} :
       ScanStart(r, SampleCatalog)

SpecHistory == InitHistory /\ [][NextHistory]_vars

\* no scan, clear-history or restore is in progress
HistoryQuiet ==
  /\ pc # "saving"
  /\ historyTx = << >>
  /\ restoreTask = NoRestore

\* C26: whenever no scan, clear-history or restore is in progress, the history
\* list in memory contains exactly the entries of the 'history' store.
C26_HistoryMatchesStore ==
  HistoryQuiet => SameEntries(historyRows, historyStore)

----------------------------------------------------------------------------
(* THE CAMERA *)

\* startScanning has two awaits, getUserMedia and video.play(); starts counts
\* the calls at each.  A detection loop lives from startBarcodeDetection to
\* the detectFrame call that finds AppState.scanning false; the barcodes it
\* detects are left out.  The start button is taken to be shown and the stop
\* button hidden when the page loads, as stopScanning leaves them: the start
\* button is shown exactly when AppState.scanning is false.

MaxStreams == 3

Tabs == {"scan", "history"}

cameraUnchanged ==
  <<raw, parsed, match, entry, masterData, masterIndex, today, tzWest, lenientDate,
    historyVars, catalogVars, loop>>

\* startScanning up to await navigator.mediaDevices.getUserMedia(constraints)
StartScanning ==
  /\ acquired + starts.media < MaxStreams
  /\ starts' = [starts EXCEPT !.media = @ + 1]
  /\ UNCHANGED <<scanning, cameraStream, streams, acquired, loops, currentTab,
                 cameraUnchanged>>

\* click on startScanBtn
StartClicked ==
  /\ currentTab = "scan"
  /\ ~scanning
  /\ StartScanning

\* Ctrl+S or Cmd+S, on any tab
StartShortcut == StartScanning

\* getUserMedia resolves with a new stream: AppState.cameraStream is assigned,
\* the video gets it and startScanning awaits video.play()
StreamAcquired ==
  /\ starts.media > 0
  /\ acquired' = acquired + 1
  /\ streams' = streams \cup {acquired + 1}
  /\ cameraStream' = acquired + 1
  /\ starts' = [media |-> starts.media - 1, play |-> starts.play + 1]
  /\ UNCHANGED <<scanning, loops, currentTab, cameraUnchanged>>

\* getUserMedia rejects: the catch reports it
CameraRefused ==
  /\ starts.media > 0
  /\ starts' = [starts EXCEPT !.media = @ - 1]
  /\ UNCHANGED <<scanning, cameraStream, streams, acquired, loops, currentTab,
                 cameraUnchanged>>

\* video.play() resolves: startScanning sets scanning and starts a detection loop
VideoPlaying ==
  /\ starts.play > 0
  /\ starts' = [starts EXCEPT !.play = @ - 1]
  /\ scanning' = TRUE
  /\ loops' = loops + 1
  /\ UNCHANGED <<cameraStream, streams, acquired, currentTab, cameraUnchanged>>

\* video.play() rejects (the video lost its source meanwhile): the catch reports it
PlayFailed ==
  /\ starts.play > 0
  /\ starts' = [starts EXCEPT !.play = @ - 1]
  /\ UNCHANGED <<scanning, cameraStream, streams, acquired, loops, currentTab,
                 cameraUnchanged>>

\* the body of stopScanning
StopScanning ==
  /\ streams' = IF cameraStream # 0 THEN streams \ {cameraStream} ELSE streams
  /\ cameraStream' = 0
  /\ scanning' = FALSE

\* click on stopScanBtn
StopClicked ==
  /\ currentTab = "scan"
  /\ scanning
  /\ StopScanning
  /\ UNCHANGED <<acquired, starts, loops, currentTab, cameraUnchanged>>

\* switchTab(tabId)
SwitchTab ==
  \E tabId \in Tabs :
    /\ currentTab' = tabId
    /\ IF tabId # "scan" /\ scanning
       THEN StopScanning
       ELSE UNCHANGED <<scanning, cameraStream, streams>>
    /\ UNCHANGED <<acquired, starts, loops, cameraUnchanged>>

\* a detectFrame call that finds AppState.scanning false, at its start or after
\* its detection: the loop requests no further frame
LoopEnds ==
  /\ loops > 0
  /\ ~scanning
  /\ loops' = loops - 1
  /\ UNCHANGED <<scanning, cameraStream, streams, acquired, starts, currentTab,
                 cameraUnchanged>>

NextCamera ==
  \/ StartClicked
  \/ StartShortcut
  \/ StreamAcquired
  \/ CameraRefused
  \/ VideoPlaying
  \/ PlayFailed
  \/ StopClicked
  \/ SwitchTab
  \/ LoopEnds

InitCamera ==
  /\ FixedClock
  /\ ScanStart(Example1, SampleCatalog)

SpecCamera == InitCamera /\ [][NextCamera]_vars

\* C27: whatever the start, stop and tab-switch events, at most one camera
\* stream is live and at most one detection loop is active; and with scanning
\* off through stopScanning and no start pending, every stream handed out has
\* had its tracks stopped.
C27_OneCameraOneLoop ==
  /\ Cardinality(streams) <= 1
  /\ loops <= 1
  /\ (~scanning /\ cameraStream = 0 /\ starts = [media |-> 0, play |-> 0]) =>
       streams = {}

====
